---- MODULE Spec2Model ----
(***************************************************************************)
(* Model of the radiation-physics formula layer of RadPhysicsMPHY604:      *)
(* shared/physics_constants.py, shared/physics_calculations.py, the sweeps *)
(* of shared/plotting_utils.py, the parts of the apps that call them, and   *)
(* the launcher scripts run_apps.py and run_single_app.py.                  *)
(*                                                                         *)
(* Numbers.  The program computes with Python floats.  A float is modelled *)
(* as a decimal floating-point number <<m, e>> that stands for m * 10^e,   *)
(* with a mantissa of four significant digits (1000 <= |m| <= 9999) or     *)
(* m = 0 (written <<0, 0>>).  Every arithmetic operation is computed       *)
(* exactly and then rounded once to the nearest representable number,      *)
(* ties to even, as IEEE-754 arithmetic does at its own precision.         *)
(* Every program constant is its source literal rounded to four digits,    *)
(* except the electron rest energy, which pair production needs exactly.   *)
(* A float division by zero raises ZeroDivisionError, as Python's does.    *)
(*                                                                         *)
(* State.  tables holds the module globals (the constants and the material *)
(* table), which every function reads when it is called; pc, fn, args and  *)
(* result hold the call in progress and its outcome.  seen records, for    *)
(* every call made so far, the outcome it had the first time, and repeat   *)
(* tells whether the call in progress was made before.  For a launcher     *)
(* script pc is its position, args its command-line arguments, trace what  *)
(* it has read, printed and run so far, in order, and children the         *)
(* subprocesses it has started that have not ended.                        *)
(***************************************************************************)
EXTENDS Integers, Sequences, FiniteSets, TLC

VARIABLES pc, fn, args, result, tables, seen, repeat, trace, children

vars == <<pc, fn, args, result, tables, seen, repeat, trace, children>>

(***************************************************************************)
(* Floating-point arithmetic (Python float, at four decimal digits)        *)
(***************************************************************************)

Abs(n) == IF n < 0 THEN -n ELSE n

Sign(n) == IF n < 0 THEN -1 ELSE 1

\* 10^k, for 0 <= k <= 9
Pow10(k) ==
    <<1, 10, 100, 1000, 10000, 100000, 1000000, 10000000, 100000000,
      1000000000>>[k + 1]

\* The number of decimal digits of n >= 0.
NumDigits(n) ==
    IF n < 10000
    THEN (IF n < 100 THEN (IF n < 10 THEN 1 ELSE 2)
                     ELSE (IF n < 1000 THEN 3 ELSE 4))
    ELSE IF n < 100000000
    THEN (IF n < 1000000 THEN (IF n < 100000 THEN 5 ELSE 6)
                         ELSE (IF n < 10000000 THEN 7 ELSE 8))
    ELSE (IF n < 1000000000 THEN 9 ELSE 10)

\* The quotient q rounded up or not by the remainder r of a division by d:
\* to the nearest integer, ties to even.
RoundUp(q, r, d) ==
    IF 2 * r > d \/ (2 * r = d /\ q % 2 = 1) THEN q + 1 ELSE q

\* n / d rounded to the nearest integer, ties to even (n >= 0, d > 0).
RoundDiv(n, d) == RoundUp(n \div d, n % d, d)

\* The float of sign sgn whose n > 4 digits a are rounded to four, times
\* 10^e: the rounding may carry into a fifth digit.
Rounded(sgn, q, e) ==
    IF q = 10000 THEN <<sgn * 1000, e + 1>> ELSE <<sgn * q, e>>

\* The float nearest to m times 10^e, for m # 0 of n digits.
NormDigits(m, e, n) ==
    IF n <= 4
    THEN <<m * Pow10(4 - n), e - (4 - n)>>
    ELSE Rounded(Sign(m), RoundDiv(Abs(m), Pow10(n - 4)), e + (n - 4))

\* The float nearest to the integer m times 10^e.
Norm(m, e) ==
    IF m = 0 THEN <<0, 0>> ELSE NormDigits(m, e, NumDigits(Abs(m)))

Zero == <<0, 0>>

One == <<1000, -3>>

Two == <<2000, -3>>

IsZero(x) == x[1] = 0

\* What an expression evaluates to when a division in it raises
\* ZeroDivisionError: no number, and every operation on it raises too.
ZeroDivisionError == <<0, 1>>

IsErr(x) == x = ZeroDivisionError

FNeg(x) == <<-x[1], x[2]>>

FAbs(x) == <<Abs(x[1]), x[2]>>

\* x * y
FMul(x, y) ==
    IF IsErr(x) \/ IsErr(y) THEN ZeroDivisionError
    ELSE Norm(x[1] * y[1], x[2] + y[2])

\* sgn * a / b times 10^e for four-digit a and b, the quotient taken with
\* k more digits.
Quotient(sgn, a, b, e, k) == Norm(sgn * RoundDiv(a * Pow10(k), b), e - k)

\* x / y; float division by zero raises ZeroDivisionError
FDiv(x, y) ==
    IF IsErr(x) \/ IsErr(y) \/ IsZero(y) THEN ZeroDivisionError
    ELSE IF IsZero(x) THEN Zero
    ELSE Quotient(Sign(x[1]) * Sign(y[1]), Abs(x[1]), Abs(y[1]), x[2] - y[2],
                  IF Abs(x[1]) >= Abs(y[1]) THEN 3 ELSE 4)

\* hi + lo for hi of the larger exponent, d orders above that of lo
Sum(hi, lo, d) ==
    IF d > 5 THEN hi ELSE Norm(hi[1] * Pow10(d) + lo[1], lo[2])

\* x + y.  An operand more than five decimal orders below the other is
\* under half a unit in the last place of the sum and is absorbed.
FAdd(x, y) ==
    IF IsErr(x) \/ IsErr(y) THEN ZeroDivisionError
    ELSE IF IsZero(x) THEN y
    ELSE IF IsZero(y) THEN x
    ELSE IF x[2] >= y[2] THEN Sum(x, y, x[2] - y[2])
    ELSE Sum(y, x, y[2] - x[2])

\* x - y
FSub(x, y) == FAdd(x, FNeg(y))

\* x < y
FLt(x, y) == FSub(x, y)[1] < 0

\* x <= y
FLe(x, y) == FSub(x, y)[1] <= 0

\* One unit in the last place of x (x # 0).
Ulp(x) == <<1000, x[2] - 3>>

\* The larger of x and y (max).
FMax(x, y) == IF FLt(x, y) THEN y ELSE x

\* The whole part of x >= 0, as an integer (x below 10^9).
Floor(x) ==
    IF x[2] >= 0 THEN x[1] * Pow10(x[2])
    ELSE IF x[2] < -9 THEN 0
    ELSE x[1] \div Pow10(-x[2])

\* exp(-1), exp(-2), exp(-4), ..., exp(-512)
ExpNegPow2 ==
    << <<3679, -4>>, <<1353, -4>>, <<1832, -5>>, <<3355, -7>>, <<1125, -10>>,
       <<1266, -17>>, <<1604, -31>>, <<2572, -59>>, <<6616, -115>>,
       <<4377, -226>> >>

\* exp(-0.0), exp(-0.1), ..., exp(-0.9)
ExpNegTenths ==
    << <<1000, -3>>, <<9048, -4>>, <<8187, -4>>, <<7408, -4>>, <<6703, -4>>,
       <<6065, -4>>, <<5488, -4>>, <<4966, -4>>, <<4493, -4>>, <<4066, -4>> >>

\* exp(-n) for an integer 0 <= n < 1024: the product of the powers
\* exp(-2^k) for the binary digits of n.
ExpNegInt(n) ==
    LET P(k, acc) == IF (n \div (2 ^ k)) % 2 = 1
                     THEN FMul(acc, ExpNegPow2[k + 1]) ELSE acc
    IN  P(9, P(8, P(7, P(6, P(5, P(4, P(3, P(2, P(1, P(0, One))))))))))

\* exp(-r) for 0 <= r < 0.1: the series 1 - r + r^2/2 - r^3/6 + r^4/24.
ExpNegSmall(r) ==
    FSub(One, FMul(r,
      FSub(One, FMul(FDiv(r, Two),
        FSub(One, FMul(FDiv(r, <<3000, -3>>),
          FSub(One, FDiv(r, <<4000, -3>>))))))))

\* np.exp(-t) for t >= 0.  Below exp(-745.1) a double has no value but 0:
\* the result underflows to zero.
ExpNeg(t) ==
    IF IsErr(t) THEN ZeroDivisionError
    ELSE IF FLt(<<7451, -1>>, t) THEN Zero
    ELSE LET n == Floor(t)
             f == FSub(t, Norm(n, 0))
             k == Floor(FMul(f, <<1000, -2>>))
             r == FSub(f, Norm(k, -1))
         IN  FMul(FMul(ExpNegInt(n), ExpNegTenths[k + 1]), ExpNegSmall(r))

\* One step of Newton's iteration for the cube root of x: c + (x / c^2 - c) / 3
NewtonStep(x, c) == FAdd(c, FDiv(FSub(FDiv(x, FMul(c, c)), c), <<3000, -3>>))

RECURSIVE Newton(_, _, _)
Newton(x, c, steps) == IF steps = 0 THEN c ELSE Newton(x, NewtonStep(x, c), steps - 1)

\* x ** (1.0 / 3.0) for x > 0, to a unit in the last place: ten steps of
\* Newton's iteration from the power of ten next to the root.
CubeRoot(x) == Newton(x, <<1000, ((x[2] + 4) \div 3) - 3>>, 10)

(***************************************************************************)
(* Exact decimal arithmetic.  pair_production only doubles, compares,      *)
(* subtracts and halves energies, and its threshold test needs all nine    *)
(* digits of the rest-energy literal, which four-digit floats cannot hold. *)
(* There an energy in keV is the pair <<k, u>> that stands for             *)
(* k + u * 10^-7 with k an integer and 0 <= u < 10^7; on the inputs drawn  *)
(* below (multiples of 2 * 10^-7 keV) each of those operations is exact,   *)
(* as it is in double precision up to a rounding far below 10^-7 keV.      *)
(***************************************************************************)

FxUnit == Pow10(7)

FxNorm(k, u) == <<k + (u \div FxUnit), u % FxUnit>>

FxZero == <<0, 0>>

\* x + y
FxAdd(x, y) == FxNorm(x[1] + y[1], x[2] + y[2])

\* x - y
FxSub(x, y) == FxNorm(x[1] - y[1], x[2] - y[2])

\* n * x, for a small integer n
FxTimes(n, x) == FxNorm(n * x[1], n * x[2])

\* x / 2
FxHalf(x) == <<x[1] \div 2, (x[2] + (x[1] % 2) * FxUnit) \div 2>>

\* x < y
FxLt(x, y) == x[1] < y[1] \/ (x[1] = y[1] /\ x[2] < y[2])

\* A digit that stands for the remainder r of a division by d when the
\* quotient is rounded further: 0 exact, 1 below half, 5 half, 9 above half.
Sticky(r, d) ==
    IF r = 0 THEN 0 ELSE IF 2 * r < d THEN 1 ELSE IF 2 * r = d THEN 5 ELSE 9

\* The float nearest to x (x >= 0).
FxToFloat(x) ==
    IF x[1] = 0 THEN Norm(x[2], -7)
    ELSE IF x[1] < 1000
    THEN Norm((x[1] * Pow10(4) + x[2] \div Pow10(3)) * 10
                  + Sticky(x[2] % Pow10(3), Pow10(3)), -5)
    ELSE Norm(x[1] * 10 + Sticky(x[2], FxUnit), -1)

\* The exact value of the float x (x >= 0, at least 10^-7).
FloatToFx(x) ==
    IF x[2] >= 0 THEN <<x[1] * Pow10(x[2]), 0>>
    ELSE IF x[2] >= -7
    THEN <<x[1] \div Pow10(-x[2]), (x[1] % Pow10(-x[2])) * Pow10(7 + x[2])>>
    ELSE <<0, x[1] \div Pow10(-x[2] - 7)>>

(***************************************************************************)
(* shared/physics_constants.py                                             *)
(***************************************************************************)

\* The module globals as the import of physics_constants.py leaves them: the
\* constants, and the work functions (eV) of the materials offered by the
\* photoelectric app.  They are ordinary Python globals: a function reads
\* them when it is called.  ELECTRON_REST_ENERGY is held exactly.
physics_constants ==
    [ PLANCK_CONSTANT      |-> <<6626, -37>>,       \* 6.62607015e-34 J s
      SPEED_OF_LIGHT       |-> <<2998, 5>>,         \* 2.99792458e8 m/s
      ELECTRON_REST_MASS   |-> <<9109, -34>>,       \* 9.1093837015e-31 kg
      ELECTRON_REST_ENERGY |-> <<510, 9989460>>,    \* 510.998946 keV
      EV_TO_JOULES         |-> <<1602, -22>>,       \* 1.602176634e-19
      KEV_TO_JOULES        |-> <<1602, -19>>,       \* 1.602176634e-16
      JOULES_TO_KEV        |-> FDiv(One, <<1602, -19>>),
      ANGSTROM_TO_METERS   |-> <<1000, -13>>,       \* 1e-10
      METERS_TO_ANGSTROM   |-> <<1000, 7>>,         \* 1e10
      WORK_FUNCTIONS       |->
          [ m \in { "Sodium Iodide (NaI)", "Cesium Iodide (CsI)", "Cadmium Telluride (CdTe)",
                    "Silicon (Si)", "Germanium (Ge)", "Tungsten (W)", "Molybdenum (Mo)",
                    "Rhodium (Rh)", "Aluminum (Al)", "PMMA (Plastic)", "Water", "Lead (Pb)",
                    "Copper (Cu)", "Iodine (I)", "Calcium (Ca)", "Bismuth (Bi)" } |->
              CASE m = "Sodium Iodide (NaI)"      -> <<4300, -3>>
                [] m = "Cesium Iodide (CsI)"      -> <<6200, -3>>
                [] m = "Cadmium Telluride (CdTe)" -> <<4300, -3>>
                [] m = "Silicon (Si)"             -> <<4800, -3>>
                [] m = "Germanium (Ge)"           -> <<4800, -3>>
                [] m = "Tungsten (W)"             -> <<4500, -3>>
                [] m = "Molybdenum (Mo)"          -> <<4200, -3>>
                [] m = "Rhodium (Rh)"             -> <<4800, -3>>
                [] m = "Aluminum (Al)"            -> <<4200, -3>>
                [] m = "PMMA (Plastic)"           -> <<4300, -3>>
                [] m = "Water"                    -> <<6500, -3>>
                [] m = "Lead (Pb)"                -> <<4100, -3>>
                [] m = "Copper (Cu)"              -> <<4700, -3>>
                [] m = "Iodine (I)"               -> <<4600, -3>>
                [] m = "Calcium (Ca)"             -> <<2900, -3>>
                [] m = "Bismuth (Bi)"             -> <<4300, -3>> ] ]

PLANCK_CONSTANT == tables.PLANCK_CONSTANT

SPEED_OF_LIGHT == tables.SPEED_OF_LIGHT

ELECTRON_REST_MASS == tables.ELECTRON_REST_MASS

ELECTRON_REST_ENERGY_exact == tables.ELECTRON_REST_ENERGY

ELECTRON_REST_ENERGY == FxToFloat(ELECTRON_REST_ENERGY_exact)

EV_TO_JOULES == tables.EV_TO_JOULES

KEV_TO_JOULES == tables.KEV_TO_JOULES

JOULES_TO_KEV == tables.JOULES_TO_KEV

ANGSTROM_TO_METERS == tables.ANGSTROM_TO_METERS

METERS_TO_ANGSTROM == tables.METERS_TO_ANGSTROM

WORK_FUNCTIONS == tables.WORK_FUNCTIONS

\* Faulty variant of energy_to_wavelength (a fault the properties must
\* detect): a zero energy is caught inside and answered with 0.
energy_to_wavelength_guarded(energy_kev) ==
    IF IsZero(energy_kev) THEN Zero
    ELSE FDiv(FMul(PLANCK_CONSTANT, SPEED_OF_LIGHT), FMul(energy_kev, KEV_TO_JOULES))

\* Photon energy (keV) to wavelength (m).
energy_to_wavelength(energy_kev) ==
    FDiv(FMul(PLANCK_CONSTANT, SPEED_OF_LIGHT), FMul(energy_kev, KEV_TO_JOULES))

\* Wavelength (m) to photon energy (keV), as the source computes it.
wavelength_to_energy(wavelength_m) ==
    FDiv(FMul(PLANCK_CONSTANT, SPEED_OF_LIGHT), FMul(wavelength_m, JOULES_TO_KEV))

(***************************************************************************)
(* shared/physics_calculations.py                                          *)
(***************************************************************************)

Thousand == <<1000, 0>>

\* np.cos(np.radians(d)) for d = 0, 5, ..., 90 degrees, indexed by d / 5.
\* At 90 degrees numpy returns 6.123e-17, not 0.
CosTable ==
    <<  <<1000, -3>>, <<9962, -4>>, <<9848, -4>>, <<9659, -4>>, <<9397, -4>>,
        <<9063, -4>>, <<8660, -4>>, <<8192, -4>>, <<7660, -4>>, <<7071, -4>>,
        <<6428, -4>>, <<5736, -4>>, <<5000, -4>>, <<4226, -4>>, <<3420, -4>>,
        <<2588, -4>>, <<1736, -4>>, <<8716, -5>>, <<6123, -20>> >>

\* np.cos(np.radians(deg)) for deg a multiple of 5.
Cos(deg) ==
    LET a == deg % 360
        b == IF a > 180 THEN 360 - a ELSE a
    IN  IF b <= 90 THEN CosTable[(b \div 5) + 1]
        ELSE FNeg(CosTable[((180 - b) \div 5) + 1])

\* Faulty variant of lambda_c (a fault the properties must detect):
\* the conversion from metres to Angstrom is left out.
lambda_c_in_metres ==
    FDiv(PLANCK_CONSTANT, FMul(ELECTRON_REST_MASS, SPEED_OF_LIGHT))

\* Compton wavelength of the electron, in Angstrom.
lambda_c ==
    FMul(FDiv(PLANCK_CONSTANT, FMul(ELECTRON_REST_MASS, SPEED_OF_LIGHT)),
         METERS_TO_ANGSTROM)

\* Incident wavelength, in Angstrom.
lambda_i(incident_energy) ==
    FMul(energy_to_wavelength(incident_energy), METERS_TO_ANGSTROM)

\* Faulty variant of lambda_f (a fault the properties must detect):
\* the sign of the cosine is flipped.
lambda_f_plus_cos(incident_energy, scattering_angle) ==
    FAdd(lambda_i(incident_energy),
         FMul(lambda_c, FAdd(One, Cos(scattering_angle))))

\* Scattered wavelength, in Angstrom.
lambda_f(incident_energy, scattering_angle) ==
    FAdd(lambda_i(incident_energy),
         FMul(lambda_c, FSub(One, Cos(scattering_angle))))

\* Recoil electron energy from the energy lost and the angle.
electron_energy(energy_lost, scattering_angle) ==
    FDiv(FMul(energy_lost, FSub(One, Cos(scattering_angle))),
         FAdd(One, FDiv(energy_lost, FMul(ELECTRON_REST_ENERGY, Thousand))))

\* Faulty variant of compton_scattering (a fault the properties must detect):
\* the compton_wavelength field is given the incident wavelength.
compton_scattering_lambda_i(incident_energy, scattering_angle) ==
    LET Fields(li, lf, scattered_energy, energy_lost) ==
            [ scattered_energy       |-> scattered_energy,
              wavelength_change      |-> FSub(lf, li),
              recoil_electron_energy |-> electron_energy(energy_lost, scattering_angle),
              energy_lost            |-> energy_lost,
              compton_wavelength     |-> li ]
        Lost(li, lf, scattered_energy) ==
            Fields(li, lf, scattered_energy, FSub(incident_energy, scattered_energy))
        Scattered(li, lf) ==
            Lost(li, lf, wavelength_to_energy(FMul(lf, ANGSTROM_TO_METERS)))
    IN  Scattered(lambda_i(incident_energy), lambda_f(incident_energy, scattering_angle))

compton_scattering(incident_energy, scattering_angle) ==
    LET Fields(li, lf, scattered_energy, energy_lost) ==
            [ scattered_energy       |-> scattered_energy,
              wavelength_change      |-> FSub(lf, li),
              recoil_electron_energy |-> electron_energy(energy_lost, scattering_angle),
              energy_lost            |-> energy_lost,
              compton_wavelength     |-> lambda_c ]
        Lost(li, lf, scattered_energy) ==
            Fields(li, lf, scattered_energy, FSub(incident_energy, scattered_energy))
        Scattered(li, lf) ==
            Lost(li, lf, wavelength_to_energy(FMul(lf, ANGSTROM_TO_METERS)))
    IN  Scattered(lambda_i(incident_energy), lambda_f(incident_energy, scattering_angle))

\* Faulty variant of compton_wavelength_max (a fault the properties must detect):
\* the factor 2 is left out.
compton_wavelength_max_single(incident_energy) ==
    FMul(FDiv(PLANCK_CONSTANT, FMul(ELECTRON_REST_MASS, SPEED_OF_LIGHT)),
         METERS_TO_ANGSTROM)

\* Maximum wavelength change (180 degree scattering), in Angstrom.
compton_wavelength_max(incident_energy) ==
    FMul(Two,
         FMul(FDiv(PLANCK_CONSTANT, FMul(ELECTRON_REST_MASS, SPEED_OF_LIGHT)),
              METERS_TO_ANGSTROM))

\* Faulty variant of photoelectric_effect (a fault the properties must detect):
\* the threshold test is left out.
photoelectric_effect_no_threshold(incident_energy, work_function) ==
    LET kinetic_energy == FSub(incident_energy, work_function)
    IN  [ kinetic_energy       |-> kinetic_energy,
          max_electron_energy  |-> kinetic_energy,
          threshold_frequency  |-> FMul(FDiv(work_function, PLANCK_CONSTANT), EV_TO_JOULES),
          can_eject            |-> TRUE,
          threshold_wavelength |-> energy_to_wavelength(FDiv(work_function, Thousand)) ]

\* Faulty variant of photoelectric_effect (a fault the properties must detect):
\* the threshold test is <= instead of <.
photoelectric_effect_strict(incident_energy, work_function) ==
    IF FLe(incident_energy, work_function)
    THEN [ kinetic_energy       |-> Zero,
           max_electron_energy  |-> Zero,
           threshold_frequency  |-> FMul(FDiv(work_function, PLANCK_CONSTANT), EV_TO_JOULES),
           can_eject            |-> FALSE,
           threshold_wavelength |-> energy_to_wavelength(FDiv(work_function, Thousand)) ]
    ELSE LET kinetic_energy == FSub(incident_energy, work_function)
         IN  [ kinetic_energy       |-> kinetic_energy,
               max_electron_energy  |-> kinetic_energy,
               threshold_frequency  |-> FMul(FDiv(work_function, PLANCK_CONSTANT), EV_TO_JOULES),
               can_eject            |-> TRUE,
               threshold_wavelength |-> energy_to_wavelength(FDiv(work_function, Thousand)) ]

\* Faulty variant of photoelectric_effect (a fault the properties must detect):
\* below the threshold the frequency is taken from the incident energy.
photoelectric_effect_frequency_of_incident(incident_energy, work_function) ==
    IF FLt(incident_energy, work_function)
    THEN [ kinetic_energy       |-> Zero,
           max_electron_energy  |-> Zero,
           threshold_frequency  |-> FMul(FDiv(incident_energy, PLANCK_CONSTANT), EV_TO_JOULES),
           can_eject            |-> FALSE,
           threshold_wavelength |-> energy_to_wavelength(FDiv(work_function, Thousand)) ]
    ELSE LET kinetic_energy == FSub(incident_energy, work_function)
         IN  [ kinetic_energy       |-> kinetic_energy,
               max_electron_energy  |-> kinetic_energy,
               threshold_frequency  |-> FMul(FDiv(work_function, PLANCK_CONSTANT), EV_TO_JOULES),
               can_eject            |-> TRUE,
               threshold_wavelength |-> energy_to_wavelength(FDiv(work_function, Thousand)) ]

\* Faulty variant of photoelectric_effect (a fault the properties must detect):
\* the threshold wavelength is taken from the incident energy.
photoelectric_effect_wavelength_of_incident(incident_energy, work_function) ==
    IF FLt(incident_energy, work_function)
    THEN [ kinetic_energy       |-> Zero,
           max_electron_energy  |-> Zero,
           threshold_frequency  |-> FMul(FDiv(work_function, PLANCK_CONSTANT), EV_TO_JOULES),
           can_eject            |-> FALSE,
           threshold_wavelength |-> energy_to_wavelength(FDiv(incident_energy, Thousand)) ]
    ELSE LET kinetic_energy == FSub(incident_energy, work_function)
         IN  [ kinetic_energy       |-> kinetic_energy,
               max_electron_energy  |-> kinetic_energy,
               threshold_frequency  |-> FMul(FDiv(work_function, PLANCK_CONSTANT), EV_TO_JOULES),
               can_eject            |-> TRUE,
               threshold_wavelength |-> energy_to_wavelength(FDiv(incident_energy, Thousand)) ]

\* Faulty variant of photoelectric_effect (a fault the properties must
\* detect): the below-threshold branch leaves out the threshold wavelength.
photoelectric_effect_short_below(incident_energy, work_function) ==
    IF FLt(incident_energy, work_function)
    THEN [ kinetic_energy       |-> Zero,
           max_electron_energy  |-> Zero,
           threshold_frequency  |-> FMul(FDiv(work_function, PLANCK_CONSTANT), EV_TO_JOULES),
           can_eject            |-> FALSE ]
    ELSE LET kinetic_energy == FSub(incident_energy, work_function)
         IN  [ kinetic_energy       |-> kinetic_energy,
               max_electron_energy  |-> kinetic_energy,
               threshold_frequency  |-> FMul(FDiv(work_function, PLANCK_CONSTANT), EV_TO_JOULES),
               can_eject            |-> TRUE,
               threshold_wavelength |-> energy_to_wavelength(FDiv(work_function, Thousand)) ]

photoelectric_effect(incident_energy, work_function) ==
    IF FLt(incident_energy, work_function)
    THEN [ kinetic_energy       |-> Zero,
           max_electron_energy  |-> Zero,
           threshold_frequency  |-> FMul(FDiv(work_function, PLANCK_CONSTANT), EV_TO_JOULES),
           can_eject            |-> FALSE,
           threshold_wavelength |-> energy_to_wavelength(FDiv(work_function, Thousand)) ]
    ELSE LET kinetic_energy == FSub(incident_energy, work_function)
         IN  [ kinetic_energy       |-> kinetic_energy,
               max_electron_energy  |-> kinetic_energy,
               threshold_frequency  |-> FMul(FDiv(work_function, PLANCK_CONSTANT), EV_TO_JOULES),
               can_eject            |-> TRUE,
               threshold_wavelength |-> energy_to_wavelength(FDiv(work_function, Thousand)) ]

\* Faulty variant of photoelectric_threshold_frequency (a fault the
\* properties must detect): the work function is not converted to joules.
photoelectric_threshold_frequency_of_ev(work_function) ==
    FDiv(work_function, PLANCK_CONSTANT)

\* Threshold frequency (Hz) for a work function in eV.
photoelectric_threshold_frequency(work_function) ==
    FDiv(FMul(work_function, EV_TO_JOULES), PLANCK_CONSTANT)

\* Threshold wavelength (m) for a work function in eV.
photoelectric_threshold_wavelength(work_function) ==
    LET f_threshold == photoelectric_threshold_frequency(work_function)
    IN  FDiv(SPEED_OF_LIGHT, f_threshold)

\* Faulty variant of threshold_energy (a fault the properties must detect):
\* the rounded 1.022 MeV in place of twice the rest energy.
threshold_energy_rounded == <<1021, 9980000>>

\* threshold_energy = 2 * ELECTRON_REST_ENERGY
threshold_energy == FxTimes(2, ELECTRON_REST_ENERGY_exact)

\* Faulty variant of pair_production (a fault the properties must detect):
\* a photon exactly at the threshold is turned away.
pair_production_above_only(incident_energy) ==
    IF ~FxLt(threshold_energy, incident_energy)
    THEN [ threshold_energy    |-> threshold_energy,
           excess_energy       |-> FxZero,
           kinetic_energy_each |-> FxZero,
           can_occur           |-> FALSE,
           minimum_energy      |-> threshold_energy ]
    ELSE LET total_energy == FxSub(incident_energy, threshold_energy)
         IN  [ threshold_energy    |-> threshold_energy,
               excess_energy       |-> total_energy,
               kinetic_energy_each |-> FxHalf(total_energy),
               can_occur           |-> TRUE,
               minimum_energy      |-> threshold_energy ]

\* Faulty variant of pair_production (a fault the properties must detect):
\* below the threshold the shortfall is reported as the excess.
pair_production_shortfall(incident_energy) ==
    IF FxLt(incident_energy, threshold_energy)
    THEN [ threshold_energy    |-> threshold_energy,
           excess_energy       |-> FxSub(incident_energy, threshold_energy),
           kinetic_energy_each |-> FxZero,
           can_occur           |-> FALSE,
           minimum_energy      |-> threshold_energy ]
    ELSE LET total_energy == FxSub(incident_energy, threshold_energy)
         IN  [ threshold_energy    |-> threshold_energy,
               excess_energy       |-> total_energy,
               kinetic_energy_each |-> FxHalf(total_energy),
               can_occur           |-> TRUE,
               minimum_energy      |-> threshold_energy ]

pair_production(incident_energy) ==
    IF FxLt(incident_energy, threshold_energy)
    THEN [ threshold_energy    |-> threshold_energy,
           excess_energy       |-> FxZero,
           kinetic_energy_each |-> FxZero,
           can_occur           |-> FALSE,
           minimum_energy      |-> threshold_energy ]
    ELSE LET total_energy == FxSub(incident_energy, threshold_energy)
         IN  [ threshold_energy    |-> threshold_energy,
               excess_energy       |-> total_energy,
               kinetic_energy_each |-> FxHalf(total_energy),
               can_occur           |-> TRUE,
               minimum_energy      |-> threshold_energy ]

(***************************************************************************)
(* shared/plotting_utils.py and the sweeps of the apps                     *)
(***************************************************************************)

\* The float of the integer n.
Float(n) == Norm(n, 0)

\* The sequence s as a list of values, each computed once.
List(s) == s \o <<>>

\* Faulty variant of linspace (a fault the properties must detect):
\* the interval is cut in num steps and the end point is left out.
linspace_exclusive(start, stop, num) ==
    LET step == FDiv(FSub(stop, start), Float(num))
    IN  List([i \in 1..num |-> FAdd(FMul(Float(i - 1), step), start)])

\* np.linspace(start, stop, num): arange(0, num) * step + start with
\* step = (stop - start) / (num - 1), and the last sample set to stop.
linspace(start, stop, num) ==
    LET step == FDiv(FSub(stop, start), Float(num - 1))
    IN  List([i \in 1..num |->
                IF i = num THEN stop ELSE FAdd(FMul(Float(i - 1), step), start)])

\* np.cos(np.radians(d)) for d = j * 90 / 99 degrees, j = 0 .. 99: the
\* sample angles of a 100-point sweep over [0, 90] and, every other one,
\* over [0, 180].
CosGrid ==
    <<
        <<1000, -3>>, <<9999, -4>>, <<9995, -4>>, <<9989, -4>>, <<9980, -4>>,
        <<9969, -4>>, <<9955, -4>>, <<9938, -4>>, <<9920, -4>>, <<9898, -4>>,
        <<9874, -4>>, <<9848, -4>>, <<9819, -4>>, <<9788, -4>>, <<9754, -4>>,
        <<9718, -4>>, <<9679, -4>>, <<9638, -4>>, <<9595, -4>>, <<9549, -4>>,
        <<9501, -4>>, <<9450, -4>>, <<9397, -4>>, <<9341, -4>>, <<9284, -4>>,
        <<9224, -4>>, <<9161, -4>>, <<9096, -4>>, <<9029, -4>>, <<8960, -4>>,
        <<8888, -4>>, <<8815, -4>>, <<8738, -4>>, <<8660, -4>>, <<8580, -4>>,
        <<8497, -4>>, <<8413, -4>>, <<8326, -4>>, <<8237, -4>>, <<8146, -4>>,
        <<8053, -4>>, <<7958, -4>>, <<7861, -4>>, <<7761, -4>>, <<7660, -4>>,
        <<7557, -4>>, <<7453, -4>>, <<7346, -4>>, <<7237, -4>>, <<7127, -4>>,
        <<7015, -4>>, <<6901, -4>>, <<6785, -4>>, <<6668, -4>>, <<6549, -4>>,
        <<6428, -4>>, <<6306, -4>>, <<6182, -4>>, <<6056, -4>>, <<5929, -4>>,
        <<5801, -4>>, <<5671, -4>>, <<5539, -4>>, <<5406, -4>>, <<5272, -4>>,
        <<5137, -4>>, <<5000, -4>>, <<4862, -4>>, <<4723, -4>>, <<4582, -4>>,
        <<4441, -4>>, <<4298, -4>>, <<4154, -4>>, <<4009, -4>>, <<3863, -4>>,
        <<3717, -4>>, <<3569, -4>>, <<3420, -4>>, <<3271, -4>>, <<3120, -4>>,
        <<2969, -4>>, <<2817, -4>>, <<2665, -4>>, <<2511, -4>>, <<2358, -4>>,
        <<2203, -4>>, <<2048, -4>>, <<1893, -4>>, <<1736, -4>>, <<1580, -4>>,
        <<1423, -4>>, <<1266, -4>>, <<1108, -4>>, <<9506, -5>>, <<7925, -5>>,
        <<6342, -5>>, <<4758, -5>>, <<3173, -5>>, <<1587, -5>>, <<6123, -20>> >>

\* np.cos(np.radians(angle)) for a float angle in degrees, 0 <= angle <= 180:
\* a multiple of 5 degrees or the nearest sample angle of CosGrid.
CosDeg(angle) ==
    LET a == IF angle[2] >= -4 THEN angle[1] * Pow10(angle[2] + 4)
             ELSE angle[1] \div Pow10(-angle[2] - 4)
        j == RoundDiv(a * 11, Pow10(5))
    IN  IF a % (5 * Pow10(4)) = 0 THEN Cos(a \div Pow10(4))
        ELSE IF j <= 99 THEN CosGrid[j + 1]
        ELSE FNeg(CosGrid[198 - j + 1])

\* compton_scattering(incident_energy, scattering_angle) for a float angle
\* in degrees, as the sweeps call it: the same statements as above.
compton_scattering_deg(incident_energy, scattering_angle) ==
    LET Fields(li, lf, scattered_energy, energy_lost, cos) ==
            [ scattered_energy       |-> scattered_energy,
              wavelength_change      |-> FSub(lf, li),
              recoil_electron_energy |->
                  FDiv(FMul(energy_lost, FSub(One, cos)),
                       FAdd(One, FDiv(energy_lost,
                                      FMul(ELECTRON_REST_ENERGY, Thousand)))),
              energy_lost            |-> energy_lost,
              compton_wavelength     |-> lambda_c ]
        Lost(li, lf, scattered_energy, cos) ==
            Fields(li, lf, scattered_energy,
                   FSub(incident_energy, scattered_energy), cos)
        Scattered(li, lf, cos) ==
            Lost(li, lf, wavelength_to_energy(FMul(lf, ANGSTROM_TO_METERS)), cos)
        Shifted(li, cos) ==
            Scattered(li, FAdd(li, FMul(lambda_c, FSub(One, cos))), cos)
    IN  Shifted(lambda_i(incident_energy), CosDeg(scattering_angle))

\* Sample points of create_compton_scattering_plot.
ComptonPlotPoints == 100

\* The data of create_compton_scattering_plot(incident_energy, max_angle):
\* the angles, one call of compton_scattering per angle and one value of it
\* appended to each of the two lists.
create_compton_scattering_plot(incident_energy, max_angle) ==
    LET angles == linspace(Zero, max_angle, ComptonPlotPoints)
        res == List([i \in 1..Len(angles) |->
                   compton_scattering_deg(FMul(incident_energy, Thousand), angles[i])])
    IN  [ angles             |-> angles,
          scattered_energies |->
              [i \in 1..Len(res) |-> FDiv(res[i].scattered_energy, Thousand)],
          wavelength_changes |->
              [i \in 1..Len(res) |-> res[i].wavelength_change] ]

\* Sample points of create_pair_production_plot.
PairPlotPoints == 200

\* pair_production(energy * 1000) for a float energy in MeV.
pair_production_mev(energy) == pair_production(FloatToFx(FMul(energy, Thousand)))

\* The data of create_pair_production_plot(max_energy): the energies, one
\* call of pair_production per energy and one value of it, in MeV, appended
\* to each of the three lists.
create_pair_production_plot(max_energy) ==
    LET energies == linspace(<<5000, -4>>, max_energy, PairPlotPoints)
        res == List([i \in 1..Len(energies) |-> pair_production_mev(energies[i])])
    IN  [ energies         |-> energies,
          thresholds       |->
              [i \in 1..Len(res) |->
                  FDiv(FxToFloat(res[i].threshold_energy), Thousand)],
          excess_energies  |->
              [i \in 1..Len(res) |->
                  FDiv(FxToFloat(res[i].excess_energy), Thousand)],
          kinetic_energies |->
              [i \in 1..Len(res) |->
                  FDiv(FxToFloat(res[i].kinetic_energy_each), Thousand)] ]

\* Sample points of the Compton app's angle explorer: every 5 degrees.
ExplorerPoints == 37

\* The data of the angle explorer of the Compton app at the slider's
\* energy: one call of compton_scattering per angle and one value of it
\* appended to each of the three lists.
angle_explorer(incident_energy_mev) ==
    LET Lists(angles_range, calc) ==
            [ angles_range       |-> angles_range,
              energies_scattered |->
                  [i \in 1..Len(calc) |-> FDiv(calc[i].scattered_energy, Thousand)],
              energies_electron  |->
                  [i \in 1..Len(calc) |->
                      FDiv(calc[i].recoil_electron_energy, Thousand)],
              wavelength_changes |->
                  [i \in 1..Len(calc) |-> calc[i].wavelength_change] ]
        Sweep(angles_range) ==
            Lists(angles_range,
                  List([i \in 1..Len(angles_range) |->
                           compton_scattering_deg(FMul(incident_energy_mev, Thousand),
                                                  angles_range[i])]))
    IN  Sweep(linspace(Zero, <<1800, -1>>, ExplorerPoints))

\* Faulty variant of current_idx (a fault the properties must detect): the
\* index counts from one.
current_idx_from_one(scattering_angle) == (scattering_angle \div 5) + 1

\* current_idx = int(scattering_angle / 5), for the slider's whole degrees
current_idx(scattering_angle) == scattering_angle \div 5

\* The markers at index idx of a sweep: drawn when the index is within the
\* sweep, at x = scattering_angle and y = the sweep's lists at the index
\* (lists count from 0 in the code and from 1 here).
markers_at(sweep, idx, scattering_angle) ==
    IF idx < Len(sweep.angles_range)
    THEN [ current_idx |-> idx,
           drawn  |-> TRUE,
           x      |-> scattering_angle,
           angle  |-> sweep.angles_range[idx + 1],
           y_vals |-> << sweep.energies_scattered[idx + 1],
                         sweep.energies_electron[idx + 1],
                         sweep.wavelength_changes[idx + 1],
                         FDiv(sweep.energies_electron[idx + 1],
                              sweep.energies_scattered[idx + 1]) >> ]
    ELSE [ current_idx |-> idx,
           drawn  |-> FALSE,
           x      |-> scattering_angle,
           angle  |-> Zero,
           y_vals |-> <<>> ]

\* The current-angle markers of the angle explorer with the sliders at
\* <<MeV, degrees>>.
current_angle_markers(incident_energy_mev, scattering_angle) ==
    markers_at(angle_explorer(incident_energy_mev),
               current_idx(scattering_angle), scattering_angle)

\* np.clip(x, 0, None)
clip(x) == IF FLt(x, Zero) THEN Zero ELSE x

\* Sample points of create_triplet_production_plot.
TripletPlotPoints == 300

\* The data of create_triplet_production_plot(max_energy), in MeV.  The
\* threshold is the literal 2.044, held exactly.
create_triplet_production_plot(max_energy) ==
    LET threshold == <<2, 440000>>
        energies == linspace(FxToFloat(threshold), max_energy, TripletPlotPoints)
        available == List([i \in 1..Len(energies) |->
                         clip(FSub(energies[i], FxToFloat(threshold)))])
    IN  [ threshold    |-> threshold,
          energies     |-> energies,
          available    |-> available,
          per_particle |->
              [i \in 1..Len(available) |-> FDiv(available[i], <<3000, -3>>)] ]

\* np.logspace(np.log10(1.1), np.log10(10), 50): the energies (MeV) of the
\* pair production app's cross-section curve.
energy_range ==
    <<
        <<1100, -3>>, <<1151, -3>>, <<1204, -3>>, <<1259, -3>>, <<1317, -3>>,
        <<1378, -3>>, <<1441, -3>>, <<1508, -3>>, <<1577, -3>>, <<1650, -3>>,
        <<1726, -3>>, <<1805, -3>>, <<1889, -3>>, <<1976, -3>>, <<2067, -3>>,
        <<2162, -3>>, <<2262, -3>>, <<2366, -3>>, <<2475, -3>>, <<2589, -3>>,
        <<2708, -3>>, <<2833, -3>>, <<2963, -3>>, <<3100, -3>>, <<3243, -3>>,
        <<3392, -3>>, <<3548, -3>>, <<3712, -3>>, <<3883, -3>>, <<4062, -3>>,
        <<4249, -3>>, <<4445, -3>>, <<4650, -3>>, <<4864, -3>>, <<5088, -3>>,
        <<5322, -3>>, <<5568, -3>>, <<5824, -3>>, <<6093, -3>>, <<6373, -3>>,
        <<6667, -3>>, <<6974, -3>>, <<7296, -3>>, <<7632, -3>>, <<7983, -3>>,
        <<8351, -3>>, <<8736, -3>>, <<9138, -3>>, <<9560, -3>>, <<1000, -2>> >>

\* The cross-section block of the pair production app at the slider's
\* energy (MeV): the threshold 1.022 and the rest energy 0.511 its
\* expressions use, held exactly, the samples of the curve that get a
\* nonzero cross section (e > 1.022) and whether the marker of the current
\* energy is drawn (incident_energy_mev > 1.022).  The value of sigma, a
\* logarithm, is not computed.
pair_app_cross_section(incident_energy_mev) ==
    LET threshold == <<1, 220000>>
        rest_energy == <<0, 5110000>>
    IN  [ threshold    |-> threshold,
          rest_energy  |-> rest_energy,
          energy_range |-> energy_range,
          nonzero      |->
              [i \in 1..Len(energy_range) |->
                  FLt(FxToFloat(threshold), energy_range[i])],
          marker       |-> FLt(FxToFloat(threshold), incident_energy_mev) ]

\* The largest of the values of s, all of them >= 0 (ndarray.max).  Of two
\* positive floats the larger has the larger exponent or, at equal
\* exponents, the larger mantissa.
MaxOf(s) ==
    LET nz == {i \in DOMAIN s : s[i][1] # 0}
    IN  IF nz = {} THEN Zero
        ELSE LET es == {s[i][2] : i \in nz}
                 e  == CHOOSE d \in es : \A c \in es : c <= d
                 ms == {s[i][1] : i \in {j \in nz : s[j][2] = e}}
                 m  == CHOOSE d \in ms : \A c \in ms : c <= d
             IN  <<m, e>>

\* Sample points of create_photodisintegration_plot.
PhotodisintegrationPlotPoints == 600

\* The Gaussian resonance of create_photodisintegration_plot at one energy:
\* np.exp(-0.5 * ((energy - peak) / width) ** 2)
resonance(energy) ==
    LET peak  == <<1500, -2>>
        width == <<5000, -3>>
        z     == FDiv(FSub(energy, peak), width)
    IN  ExpNeg(FMul(<<5000, -4>>, FMul(z, z)))

\* Faulty variant of create_photodisintegration_plot (a fault the
\* properties must detect): the values below the threshold are not cleared
\* and the curve is divided by its maximum without looking at it.
create_photodisintegration_plot_unmasked(max_energy) ==
    LET energies == linspace(Zero, max_energy, PhotodisintegrationPlotPoints)
        xs == List([i \in 1..Len(energies) |-> resonance(energies[i])])
        top == MaxOf(xs)
    IN  [ energies  |-> energies,
          threshold |-> <<8000, -3>>,
          xs        |-> List([i \in 1..Len(xs) |-> FDiv(xs[i], top)]) ]

\* The data of create_photodisintegration_plot(max_energy), in MeV: the
\* resonance, set to 0 below the threshold, and divided by its maximum when
\* that is above 0.
create_photodisintegration_plot(max_energy) ==
    LET energies  == linspace(Zero, max_energy, PhotodisintegrationPlotPoints)
        threshold == <<8000, -3>>
        xs  == List([i \in 1..Len(energies) |->
                  IF FLt(energies[i], threshold) THEN Zero
                  ELSE resonance(energies[i])])
        top == MaxOf(xs)
    IN  [ energies  |-> energies,
          threshold |-> threshold,
          xs        |-> IF FLt(Zero, top)
                        THEN List([i \in 1..Len(xs) |-> FDiv(xs[i], top)])
                        ELSE xs ]

\* Sample points of create_rayleigh_scattering_plot: every half degree.
RayleighPlotPoints == 361

\* Faulty variant of rayleigh_theta0 (a fault the properties must detect):
\* the energy and the atomic number divide as they are passed in.
rayleigh_theta0_unguarded(energy_keV, atomic_number) ==
    FMul(FMul(<<3500, -2>>, FDiv(<<3000, -2>>, energy_keV)),
         CubeRoot(FDiv(<<1000, -2>>, Float(atomic_number))))

\* The width parameter of create_rayleigh_scattering_plot before clipping:
\* 35.0 * (30.0 / max(energy_keV, 1.0)) * (10.0 / max(atomic_number, 1)) ** (1.0 / 3.0)
rayleigh_theta0(energy_keV, atomic_number) ==
    FMul(FMul(<<3500, -2>>, FDiv(<<3000, -2>>, FMax(energy_keV, One))),
         CubeRoot(FDiv(<<1000, -2>>,
                       Float(IF atomic_number > 1 THEN atomic_number ELSE 1))))

\* np.clip(x, lo, hi)
clip_between(x, lo, hi) ==
    IF IsErr(x) THEN x ELSE IF FLt(x, lo) THEN lo ELSE IF FLt(hi, x) THEN hi ELSE x

\* The data of create_rayleigh_scattering_plot(energy_keV, atomic_number):
\* the Gaussian in angle of width theta0, divided by its maximum.
create_rayleigh_scattering_plot(energy_keV, atomic_number) ==
    LET Square(q) == FMul(q, q)
        Scaled(angles, theta0, intensity, top) ==
            [ angles    |-> angles,
              theta0    |-> theta0,
              intensity |->
                  List([i \in 1..Len(intensity) |-> FDiv(intensity[i], top)]) ]
        Plot(angles, theta0, intensity) ==
            Scaled(angles, theta0, intensity, MaxOf(intensity))
        Gaussian(angles, theta0) ==
            Plot(angles, theta0,
                 List([i \in 1..Len(angles) |->
                          ExpNeg(Square(FDiv(angles[i], theta0)))]))
    IN  Gaussian(linspace(Zero, <<1800, -1>>, RayleighPlotPoints),
                 clip_between(rayleigh_theta0(energy_keV, atomic_number),
                              <<5000, -3>>, <<6000, -2>>))

\* Faulty variant of screening_correction (a fault the properties must
\* detect): a correction of 0.1 MeV, not 0.001 MeV, per unit of Z^(1/3).
screening_correction_tenth(nuclear_charge) ==
    FxTimes(100, FloatToFx(CubeRoot(Float(nuclear_charge))))

\* screening_correction = 0.001 * (nuclear_charge ** (1/3)) MeV, held
\* exactly in keV like the other energies of the threshold tests.
screening_correction(nuclear_charge) ==
    FloatToFx(CubeRoot(Float(nuclear_charge)))

\* The three threshold tests of one run of the pair production app with the
\* sliders at <<MeV, Z>>, in exact keV: the calculation's can_occur, the
\* test against the effective threshold that selects the "enhanced by
\* nuclear field" message, and the test against the literal 1.022 MeV that
\* draws the cross-section marker.
pair_app_threshold_tests(incident_energy_mev, nuclear_charge) ==
    LET incident == FloatToFx(FMul(incident_energy_mev, Thousand))
        res == pair_production(incident)
        threshold_with_nucleus == res.threshold_energy
        effective_threshold ==
            FxSub(threshold_with_nucleus, screening_correction(nuclear_charge))
    IN  [ result              |-> res,
          effective_threshold |-> effective_threshold,
          enhanced            |-> ~FxLt(incident, effective_threshold),
          marker              |-> FxLt(<<1022, 0>>, incident) ]

(***************************************************************************)
(* Inputs                                                                  *)
(***************************************************************************)

\* Largest decimal exponent of a photon energy passed in (keV).
MaxEnergyExp == 1

EnergyMantissas == {1000, 1240, 2500, 5000, 5110, 9999}

\* Photon energies in keV, from 1 eV up to 9999 * 10^MaxEnergyExp keV.
Energies == {<<m, e>> : m \in EnergyMantissas, e \in -6..MaxEnergyExp}

Wavelengths == {energy_to_wavelength(E) : E \in Energies}

\* Largest scattering angle passed in, in steps of 5 degrees (36: 180 degrees).
MaxAngleStep == 36

Angles == {5 * k : k \in 0..MaxAngleStep}

\* Largest photon energy passed to photoelectric_effect, in tenths of an eV.
MaxIncidentTenths == 80

IncidentEnergiesEv == {Norm(k, -1) : k \in 0..MaxIncidentTenths}

\* Work functions (eV): the material table's, and the spec's 2.1 eV scenario.
WorkFunctionsEv == {WORK_FUNCTIONS[m] : m \in DOMAIN WORK_FUNCTIONS} \cup {<<2100, -3>>}

\* The Compton app's energy slider: 0.1 to 10.0 MeV in steps of 0.1.
SliderEnergiesMeV == {Norm(k, -1) : k \in 1..100}

\* The Compton app's angle slider: 0 to 180 degrees in steps of 5.
SliderAngles == {5 * k : k \in 0..36}

\* Photon energies for pair_production in keV, exact: whole and fractional
\* parts that put energies below, at and above the threshold 1021.997892,
\* zero and negative energies among them.
PairWholeKeV == {-5, 0, 500, 1021, 1022, 2021, 5000, 10000}

PairFractions == {0, 2, 5000000, 9978900, 9978918, 9978920, 9978922,
                  9979000, 9980000}

PairEnergies == {<<k, u>> : k \in PairWholeKeV, u \in PairFractions}

\* Photon energies (MeV) the sweeps are drawn at: 0.1, 1, 5 and 10 MeV.
SweepEnergiesMeV == {<<1000, -4>>, <<1000, -3>>, <<5000, -3>>, <<1000, -2>>}

\* max_angle of the Compton plot (degrees): 90 and the apps' 180.
SweepMaxAngles == {<<9000, -2>>, <<1800, -1>>}

\* max_energy of the pair production plot (MeV): 2, the default 5 and the
\* app's 10.
SweepMaxEnergiesMeV == {<<2000, -3>>, <<5000, -3>>, <<1000, -2>>}

\* The photoelectric app's material selectbox.
Materials == DOMAIN physics_constants.WORK_FUNCTIONS

\* The photoelectric app's energy slider: 1.0 to 50.0 eV in steps of 0.5.
SliderEnergiesEv == {Norm(5 * k, -1) : k \in 2..100}

\* The pair production app's energy slider: 0.5 to 10.0 MeV in steps of 0.1.
PairSliderEnergiesMeV == {Norm(k, -1) : k \in 5..100}

\* max_energy of the triplet production plot (MeV): the ends and the default
\* of the triplet app's slider.
TripletMaxEnergiesMeV == {<<5000, -3>>, <<2000, -2>>, <<5000, -2>>}

\* max_energy of the photodisintegration plot (MeV): negative, zero, below
\* and at the threshold, the ends and the default of the app's slider
\* (10 to 80), and energies far above the resonance.
PhotodisintegrationMaxEnergiesMeV ==
    {<<-5000, -3>>, Zero, <<5000, -3>>, <<7990, -3>>, <<8000, -3>>,
     <<1000, -2>>, <<3000, -2>>, <<8000, -2>>, <<1000, 2>>, <<1240, 2>>,
     <<1000, 3>>}

\* Arguments of the Rayleigh plot: photon energies (keV) and atomic
\* numbers, negative and zero ones, the ends and the defaults of the app's
\* sliders (20 to 150 keV, Z from 1 to 82) among them.
RayleighEnergiesKeV ==
    {<<-1000, -2>>, Zero, <<1000, -3>>, <<2000, -2>>, <<6000, -2>>, <<1500, -1>>}

RayleighAtomicNumbers == {-3, 0, 1, 13, 82}

\* The pair production app's nuclear charge slider: 1 to 100.
NuclearCharges == 1..100

(***************************************************************************)
(* The program.  Every operation is one call of a pure function: a state   *)
(* holds the call (fn, args), drawn at the start from the inputs above,    *)
(* and its result once the call has returned (pc = "done").                *)
(***************************************************************************)

Calls ==
    ({"energy_to_wavelength"} \X {<<E>> : E \in Energies \cup {Zero}})
    \cup ({"wavelength_to_energy"} \X {<<w>> : w \in Wavelengths \cup {Zero}})
    \cup ({"compton_scattering"} \X ((Energies \cup {Zero}) \X Angles))
    \cup ({"compton_wavelength_max"} \X {<<E>> : E \in Energies})
    \cup ({"photoelectric_effect"}
              \X (IncidentEnergiesEv \X (WorkFunctionsEv \cup {Zero})))
    \cup ({"compton_app"} \X (SliderEnergiesMeV \X SliderAngles))
    \cup ({"pair_production"} \X {<<E>> : E \in PairEnergies})
    \cup ({"create_compton_scattering_plot"} \X (SweepEnergiesMeV \X SweepMaxAngles))
    \cup ({"create_pair_production_plot"} \X {<<E>> : E \in SweepMaxEnergiesMeV})
    \cup ({"angle_explorer"} \X {<<E>> : E \in SweepEnergiesMeV})
    \cup ({"photoelectric_app"} \X (Materials \X SliderEnergiesEv))
    \cup ({"pair_app_cross_section"} \X {<<E>> : E \in PairSliderEnergiesMeV})
    \cup ({"create_triplet_production_plot"} \X {<<E>> : E \in TripletMaxEnergiesMeV})
    \cup ({"create_photodisintegration_plot"}
              \X {<<E>> : E \in PhotodisintegrationMaxEnergiesMeV})
    \cup ({"create_rayleigh_scattering_plot"}
              \X (RayleighEnergiesKeV \X RayleighAtomicNumbers))
    \cup ({"current_angle_markers"} \X (SweepEnergiesMeV \X SliderAngles))
    \cup ({"pair_app_threshold_tests"} \X (PairSliderEnergiesMeV \X NuclearCharges))
    \cup ({"photoelectric_threshold_frequency", "photoelectric_threshold_wavelength"}
              \X {<<w>> : w \in WorkFunctionsEv \cup {Zero}})

Init ==
    /\ tables = physics_constants
    /\ seen = <<>>
    /\ repeat = FALSE
    /\ trace = <<>>
    /\ children = {}
    /\ pc = "ready"
    /\ \E c \in Calls : fn = c[1] /\ args = c[2]
    /\ result = <<>>

\* Faulty variant of globals_after (a fault the properties must detect):
\* a call leaves the length conversion switched to metres.
globals_after_rescaled(f, a) == [tables EXCEPT !.METERS_TO_ANGSTROM = One]

\* Faulty variant of globals_after (a fault the properties must detect):
\* the photoelectric app stores the photon energy as the work function of
\* the selected material.
globals_after_stored(f, a) ==
    IF f = "photoelectric_app"
    THEN [tables EXCEPT !.WORK_FUNCTIONS[a[1]] = a[2]]
    ELSE tables

\* The module globals after the call f(a): no function body and no app
\* script assigns to a global name or to an entry of WORK_FUNCTIONS.
globals_after(f, a) == tables

\* seen with the outcome of the call in progress, if it is its first.
Record(outcome) ==
    [c \in DOMAIN seen \cup {<<fn, args>>} |->
        IF c \in DOMAIN seen THEN seen[c] ELSE outcome]

\* A call ends by returning its value or, when a division in it raised, by
\* passing the exception on to its caller: no function catches it.
Return(value) ==
    /\ result' = value
    /\ pc' = "done"
    /\ tables' = globals_after(fn, args)
    /\ seen' = Record([pc |-> "done", result |-> value])
    /\ UNCHANGED <<fn, args, repeat, trace, children>>

Raise ==
    /\ result' = ZeroDivisionError
    /\ pc' = "raised"
    /\ tables' = globals_after(fn, args)
    /\ seen' = Record([pc |-> "raised", result |-> ZeroDivisionError])
    /\ UNCHANGED <<fn, args, repeat, trace, children>>

\* A division raised while the fields of the result were computed.
Failed(res) == \E f \in DOMAIN res \ {"can_eject"} : IsErr(res[f])

CallEnergyToWavelength ==
    /\ pc = "ready" /\ fn = "energy_to_wavelength"
    /\ LET value == energy_to_wavelength(args[1])
       IN  IF IsErr(value) THEN Raise ELSE Return(value)

CallWavelengthToEnergy ==
    /\ pc = "ready" /\ fn = "wavelength_to_energy"
    /\ LET value == wavelength_to_energy(args[1])
       IN  IF IsErr(value) THEN Raise ELSE Return(value)

CallComptonScattering ==
    /\ pc = "ready" /\ fn = "compton_scattering"
    /\ LET res == compton_scattering(args[1], args[2])
       IN  IF Failed(res) THEN Raise ELSE Return(res)

CallComptonWavelengthMax ==
    /\ pc = "ready" /\ fn = "compton_wavelength_max"
    /\ LET value == compton_wavelength_max(args[1])
       IN  IF IsErr(value) THEN Raise ELSE Return(value)

CallPhotoelectricEffect ==
    /\ pc = "ready" /\ fn = "photoelectric_effect"
    /\ LET res == photoelectric_effect(args[1], args[2])
       IN  IF Failed(res) THEN Raise ELSE Return(res)

\* pair_production divides by the literal 2 only.
CallPairProduction ==
    /\ pc = "ready" /\ fn = "pair_production"
    /\ Return(pair_production(args[1]))

\* One run of the Compton app's script with the sliders at args = <<MeV,
\* degrees>>: the calculation, the shift recomputed for the formula display,
\* the maximum shift shown beside it, and the energy balance with the
\* branch it selects (satisfied: the success message; otherwise the
\* warning).
compton_app(incident_energy_mev, scattering_angle) ==
    LET Shown(res, conservation_check) ==
            [ result             |-> res,
              delta_lambda       |-> FMul(res.compton_wavelength,
                                          FSub(One, Cos(scattering_angle))),
              max_change         |->
                  compton_wavelength_max(FMul(incident_energy_mev, Thousand)),
              conservation_check |-> conservation_check,
              satisfied          |-> FLt(conservation_check, <<1000, -5>>) ]
        Checked(res) ==
            Shown(res, FAbs(FSub(incident_energy_mev,
                                 FAdd(FDiv(res.scattered_energy, Thousand),
                                      FDiv(res.recoil_electron_energy, Thousand)))))
    IN  Checked(compton_scattering(FMul(incident_energy_mev, Thousand), scattering_angle))

ComptonApp ==
    /\ pc = "ready" /\ fn = "compton_app"
    /\ LET Shown(app) == IF Failed(app.result) THEN Raise ELSE Return(app)
       IN  Shown(compton_app(args[1], args[2]))

\* The sweeps call the calculations at nonzero energies only.
CreateComptonScatteringPlot ==
    /\ pc = "ready" /\ fn = "create_compton_scattering_plot"
    /\ Return(create_compton_scattering_plot(args[1], args[2]))

CreatePairProductionPlot ==
    /\ pc = "ready" /\ fn = "create_pair_production_plot"
    /\ Return(create_pair_production_plot(args[1]))

AngleExplorer ==
    /\ pc = "ready" /\ fn = "angle_explorer"
    /\ Return(angle_explorer(args[1]))

\* One run of the photoelectric app's script with the selectbox and the
\* slider at args = <<material, eV>>: the work function is looked up in
\* WORK_FUNCTIONS and passed to the calculation.
photoelectric_app(material, photon_energy_ev) ==
    LET work_function == WORK_FUNCTIONS[material]
    IN  [ work_function |-> work_function,
          result        |-> photoelectric_effect(photon_energy_ev, work_function) ]

PhotoelectricApp ==
    /\ pc = "ready" /\ fn = "photoelectric_app"
    /\ LET app == photoelectric_app(args[1], args[2])
       IN  IF Failed(app.result) THEN Raise ELSE Return(app)

PairAppCrossSection ==
    /\ pc = "ready" /\ fn = "pair_app_cross_section"
    /\ Return(pair_app_cross_section(args[1]))

CreateTripletProductionPlot ==
    /\ pc = "ready" /\ fn = "create_triplet_production_plot"
    /\ Return(create_triplet_production_plot(args[1]))

CreatePhotodisintegrationPlot ==
    /\ pc = "ready" /\ fn = "create_photodisintegration_plot"
    /\ Return(create_photodisintegration_plot(args[1]))

CreateRayleighScatteringPlot ==
    /\ pc = "ready" /\ fn = "create_rayleigh_scattering_plot"
    /\ LET Plotted(res) == IF IsErr(res.theta0) THEN Raise ELSE Return(res)
       IN  Plotted(create_rayleigh_scattering_plot(args[1], args[2]))

CurrentAngleMarkers ==
    /\ pc = "ready" /\ fn = "current_angle_markers"
    /\ Return(current_angle_markers(args[1], args[2]))

PairAppThresholdTests ==
    /\ pc = "ready" /\ fn = "pair_app_threshold_tests"
    /\ Return(pair_app_threshold_tests(args[1], args[2]))

CallPhotoelectricThresholdFrequency ==
    /\ pc = "ready" /\ fn = "photoelectric_threshold_frequency"
    /\ Return(photoelectric_threshold_frequency(args[1]))

\* A work function of 0 has threshold frequency 0, and the division by it
\* raises.
CallPhotoelectricThresholdWavelength ==
    /\ pc = "ready" /\ fn = "photoelectric_threshold_wavelength"
    /\ LET value == photoelectric_threshold_wavelength(args[1])
       IN  IF IsErr(value) THEN Raise ELSE Return(value)

Next ==
    \/ CallEnergyToWavelength
    \/ CallWavelengthToEnergy
    \/ CallComptonScattering
    \/ CallComptonWavelengthMax
    \/ CallPhotoelectricEffect
    \/ CallPairProduction
    \/ ComptonApp
    \/ CreateComptonScatteringPlot
    \/ CreatePairProductionPlot
    \/ AngleExplorer
    \/ PhotoelectricApp
    \/ PairAppCrossSection
    \/ CreateTripletProductionPlot
    \/ CreatePhotodisintegrationPlot
    \/ CreateRayleighScatteringPlot
    \/ CurrentAngleMarkers
    \/ PairAppThresholdTests
    \/ CallPhotoelectricThresholdFrequency
    \/ CallPhotoelectricThresholdWavelength

Spec == Init /\ [][Next]_vars

\* Sequences of calls.  After a call has ended the process makes another
\* one, in any order and any number of times, drawn from a few calls of
\* every function, until MaxCalls different calls have been made.
MaxCalls == 3

SeqCalls ==
    { <<"energy_to_wavelength", << <<5000, -1>> >> >>,
      <<"wavelength_to_energy", << Zero >> >>,
      <<"compton_scattering", << <<5000, -1>>, 90 >> >>,
      <<"compton_wavelength_max", << <<5000, -1>> >> >>,
      <<"photoelectric_effect", << <<4200, -3>>, <<4300, -3>> >> >>,
      <<"pair_production", << <<2021, 9978920>> >> >>,
      <<"compton_app", << <<1000, -3>>, 90 >> >>,
      <<"create_compton_scattering_plot", << <<1000, -3>>, <<1800, -1>> >> >>,
      <<"create_pair_production_plot", << <<5000, -3>> >> >>,
      <<"angle_explorer", << <<1000, -3>> >> >>,
      <<"photoelectric_app", << "Sodium Iodide (NaI)", <<5000, -3>> >> >>,
      <<"pair_app_cross_section", << <<2500, -3>> >> >>,
      <<"create_triplet_production_plot", << <<5000, -3>> >> >> }

InitSeq ==
    /\ tables = physics_constants
    /\ seen = <<>>
    /\ repeat = FALSE
    /\ trace = <<>>
    /\ children = {}
    /\ pc = "ready"
    /\ \E c \in SeqCalls : fn = c[1] /\ args = c[2]
    /\ result = <<>>

NextCall ==
    /\ pc \in {"done", "raised"}
    /\ Cardinality(DOMAIN seen) < MaxCalls
    /\ \E c \in SeqCalls :
          /\ fn' = c[1]
          /\ args' = c[2]
          /\ repeat' = (c \in DOMAIN seen)
    /\ pc' = "ready"
    /\ result' = <<>>
    /\ UNCHANGED <<tables, seen, trace, children>>

NextSeq ==
    \/ CallEnergyToWavelength
    \/ CallWavelengthToEnergy
    \/ CallComptonScattering
    \/ CallComptonWavelengthMax
    \/ CallPhotoelectricEffect
    \/ CallPairProduction
    \/ ComptonApp
    \/ CreateComptonScatteringPlot
    \/ CreatePairProductionPlot
    \/ AngleExplorer
    \/ PhotoelectricApp
    \/ PairAppCrossSection
    \/ CreateTripletProductionPlot
    \/ NextCall

SpecSeq == InitSeq /\ [][NextSeq]_vars

(***************************************************************************)
(* The launchers: run_apps.py and run_single_app.py.  A string the user    *)
(* types or passes is a sequence of characters; Join gives the string.     *)
(* A launcher takes a step when a blocking call returns or raises:         *)
(* input() and subprocess.run(), which starts the command, waits until the *)
(* subprocess has ended and, when an exception interrupts the wait, kills  *)
(* the subprocess before raising it.                                       *)
(***************************************************************************)

Whitespace == {" ", "\t"}

RECURSIVE lstrip(_)
lstrip(s) == IF s # <<>> /\ Head(s) \in Whitespace THEN lstrip(Tail(s)) ELSE s

RECURSIVE rstrip(_)
rstrip(s) ==
    IF s # <<>> /\ s[Len(s)] \in Whitespace
    THEN rstrip(SubSeq(s, 1, Len(s) - 1)) ELSE s

\* str.strip()
strip(s) == rstrip(lstrip(s))

Uppercase ==
    <<"A", "B", "C", "D", "E", "F", "G", "H", "I", "J", "K", "L", "M",
      "N", "O", "P", "Q", "R", "S", "T", "U", "V", "W", "X", "Y", "Z">>

Lowercase ==
    <<"a", "b", "c", "d", "e", "f", "g", "h", "i", "j", "k", "l", "m",
      "n", "o", "p", "q", "r", "s", "t", "u", "v", "w", "x", "y", "z">>

\* str.lower()
lower(s) ==
    [i \in 1..Len(s) |->
        IF \E k \in 1..26 : Uppercase[k] = s[i]
        THEN Lowercase[CHOOSE k \in 1..26 : Uppercase[k] = s[i]]
        ELSE s[i]]

\* The string of the characters of s.
RECURSIVE Join(_)
Join(s) == IF s = <<>> THEN "" ELSE Head(s) \o Join(Tail(s))

\* The menu of run_apps: key, name and file of every application.
apps ==
    [ key \in {"1", "2", "3", "4", "5", "6", "7", "8"} |->
        CASE key = "1" -> [name |-> "Main Navigation Page", file |-> "main.py"]
          [] key = "2" -> [name |-> "Photoelectric Effect",
                           file |-> "apps/photoelectric/photoelectric_app.py"]
          [] key = "3" -> [name |-> "Compton Scattering",
                           file |-> "apps/compton_scattering/compton_app.py"]
          [] key = "4" -> [name |-> "Pair Production",
                           file |-> "apps/pair_production/pair_app.py"]
          [] key = "5" -> [name |-> "Thomson Scattering",
                           file |-> "apps/thomson_scattering/thomson_app.py"]
          [] key = "6" -> [name |-> "Rayleigh Scattering",
                           file |-> "apps/rayleigh_scattering/rayleigh_app.py"]
          [] key = "7" -> [name |-> "Triplet Production",
                           file |-> "apps/triplet_production/triplet_app.py"]
          [] key = "8" -> [name |-> "Photodisintegration",
                           file |-> "apps/photodisintegration/photo_nuclear_app.py"] ]

\* Faulty variant of app_paths (a fault the properties must detect): the
\* photodisintegration app goes by the name of its file.
app_paths_by_file ==
    [ app_name \in {"photoelectric", "compton", "pair", "thomson", "rayleigh",
                    "triplet", "photonuclear", "main"} |->
        CASE app_name = "photoelectric" -> "apps/photoelectric/photoelectric_app.py"
          [] app_name = "compton"  -> "apps/compton_scattering/compton_app.py"
          [] app_name = "pair"     -> "apps/pair_production/pair_app.py"
          [] app_name = "thomson"  -> "apps/thomson_scattering/thomson_app.py"
          [] app_name = "rayleigh" -> "apps/rayleigh_scattering/rayleigh_app.py"
          [] app_name = "triplet"  -> "apps/triplet_production/triplet_app.py"
          [] app_name = "photonuclear" ->
                 "apps/photodisintegration/photo_nuclear_app.py"
          [] app_name = "main"     -> "main.py" ]

\* The table of run_single_app: the file of every application name.
app_paths ==
    [ app_name \in {"photoelectric", "compton", "pair", "thomson", "rayleigh",
                    "triplet", "photodisintegration", "main"} |->
        CASE app_name = "photoelectric" -> "apps/photoelectric/photoelectric_app.py"
          [] app_name = "compton"  -> "apps/compton_scattering/compton_app.py"
          [] app_name = "pair"     -> "apps/pair_production/pair_app.py"
          [] app_name = "thomson"  -> "apps/thomson_scattering/thomson_app.py"
          [] app_name = "rayleigh" -> "apps/rayleigh_scattering/rayleigh_app.py"
          [] app_name = "triplet"  -> "apps/triplet_production/triplet_app.py"
          [] app_name = "photodisintegration" ->
                 "apps/photodisintegration/photo_nuclear_app.py"
          [] app_name = "main"     -> "main.py" ]

\* What a launcher has done so far, in order.
Read(text) == <<"input", text>>

Printed(text) == <<"print", text>>

Ran(file) == <<"subprocess.run", file>>

\* The top of the loop of run_apps: the menu is printed and input() waits.
Menu == Printed("Available Applications")

Chose(choice) == <<"choice", choice>>

Uncaught(exception) == <<"raise", exception>>

\* Choices entered at the prompt of run_apps in one run, at most.
MaxChoices == 2

\* What the user types at the prompt: the keys, with and without whitespace
\* around them, and lines that are no key.
RawChoices ==
    { <<"0">>, <<" ", "0", " ">>, <<"\t", "0">>, <<"1">>, <<"2">>, <<"3">>,
      <<"4">>, <<"5">>, <<"6">>, <<"7">>, <<"8">>, <<" ", "8", "\t">>,
      <<"9">>, <<>>, <<" ">>, <<"x">>, <<"1", "0">>, <<"0", " ", "1">>,
      <<"-", "1">> }

\* The command-line arguments of run_single_app after the script's name.
SingleAppArguments ==
    { <<>>,
      << <<"p", "a", "i", "r">> >>,
      << <<"P", "A", "I", "R">> >>,
      << <<"C", "o", "m", "p", "t", "o", "n">> >>,
      << <<"c", "o", "m", "p", "t", "o", "n">> >>,
      << <<"m", "a", "i", "n">> >>,
      << <<"t", "h", "o", "m", "s", "o", "n">> >>,
      << <<"r", "a", "y", "l", "e", "i", "g", "h">> >>,
      << <<"t", "r", "i", "p", "l", "e", "t">> >>,
      << <<"p", "h", "o", "t", "o", "e", "l", "e", "c", "t", "r", "i", "c">> >>,
      << <<"p", "h", "o", "t", "o", "d", "i", "s", "i", "n", "t", "e", "g",
           "r", "a", "t", "i", "o", "n">> >>,
      << <<"p", "h", "o", "t", "o", "n", "u", "c", "l", "e", "a", "r">> >>,
      << <<" ", "p", "a", "i", "r">> >>,
      << <<"m", "a", "i", "n", ".", "p", "y">> >>,
      << <<>> >>,
      << <<"p", "a", "i", "r">>, <<"m", "a", "i", "n">> >>,
      << <<"c", "o", "m", "p", "t", "o", "n">>, <<"-", "v">> >> }

InitLaunchers ==
    /\ tables = physics_constants
    /\ seen = <<>>
    /\ repeat = FALSE
    /\ trace = <<>>
    /\ children = {}
    /\ pc = "ready"
    /\ \/ fn = "run_apps" /\ args = <<>>
       \/ fn = "run_single_app" /\ args \in SingleAppArguments
    /\ result = <<>>

\* Faulty variant of is_exit (a fault the properties must detect): an empty
\* line leaves the menu too.
is_exit_or_empty(choice) == choice \in {"0", ""}

\* if choice == "0"
is_exit(choice) == choice = "0"

\* run_apps.main up to its first input(): the banner and the menu.
RunAppsStart ==
    /\ pc = "ready" /\ fn = "run_apps"
    /\ trace' = <<Printed("Radiation Physics Interactive Education Apps"), Menu>>
    /\ pc' = "input"
    /\ UNCHANGED <<fn, args, result, tables, seen, repeat, children>>

\* input() returns a line: the loop body from the prompt to the next
\* blocking call.  subprocess.run either starts the app or raises before
\* any process exists (the command cannot be run).
RunAppsChoice ==
    /\ pc = "input" /\ fn = "run_apps"
    /\ Cardinality({i \in DOMAIN trace : trace[i][1] = "input"}) < MaxChoices
    /\ \E raw \in RawChoices :
          LET choice == Join(strip(raw))
              read   == trace \o <<Read(Join(raw)), Chose(choice)>>
          IN  IF is_exit(choice)
              THEN /\ trace' = read \o <<Printed("Goodbye!")>>
                   /\ pc' = "done"
                   /\ UNCHANGED children
              ELSE IF choice \in DOMAIN apps
              THEN LET app == apps[choice]
                       cmd == read \o <<Printed("Starting"), Ran(app.file)>>
                   IN  \/ /\ trace' = cmd
                          /\ children' = children \cup {app.file}
                          /\ pc' = "running"
                       \/ /\ trace' = cmd \o <<Printed("Error running"), Menu>>
                          /\ pc' = "input"
                          /\ UNCHANGED children
              ELSE /\ trace' = read \o <<Printed("Invalid choice. Please select 0-8."),
                                         Menu>>
                   /\ pc' = "input"
                   /\ UNCHANGED children
    /\ UNCHANGED <<fn, args, result, tables, seen, repeat>>

\* The app ends: subprocess.run returns and the loop starts over.
RunAppsAppExits ==
    /\ pc = "running" /\ fn = "run_apps"
    /\ children' = {}
    /\ trace' = trace \o <<Menu>>
    /\ pc' = "input"
    /\ UNCHANGED <<fn, args, result, tables, seen, repeat>>

\* Faulty variant of RunAppsAppInterrupted (a fault the properties must
\* detect): the KeyboardInterrupt is not caught.
RunAppsAppInterrupted_uncaught ==
    /\ pc = "running" /\ fn = "run_apps"
    /\ children' = {}
    /\ trace' = trace \o <<Uncaught("KeyboardInterrupt")>>
    /\ pc' = "raised"
    /\ UNCHANGED <<fn, args, result, tables, seen, repeat>>

\* Ctrl+C while the app runs: subprocess.run kills the app and raises
\* KeyboardInterrupt, which is caught, and the loop starts over.
RunAppsAppInterrupted ==
    /\ pc = "running" /\ fn = "run_apps"
    /\ children' = {}
    /\ trace' = trace \o <<Printed("stopped."), Menu>>
    /\ pc' = "input"
    /\ UNCHANGED <<fn, args, result, tables, seen, repeat>>

\* Ctrl+C or the end of the input at the prompt: input() raises outside any
\* try statement and the exception ends the script.
RunAppsPromptInterrupted ==
    /\ pc = "input" /\ fn = "run_apps"
    /\ \E e \in {"KeyboardInterrupt", "EOFError"} :
          trace' = trace \o <<Uncaught(e)>>
    /\ pc' = "raised"
    /\ UNCHANGED <<fn, args, result, tables, seen, repeat, children>>

\* run_single_app.main up to subprocess.run: the argument count, the name
\* in lower case and its file.  With another number of arguments than one,
\* or a name that is not in the table, the help is printed and main returns.
RunSingleApp ==
    /\ pc = "ready" /\ fn = "run_single_app"
    /\ IF Len(args) # 1
       THEN /\ trace' = <<Printed("Usage"), Printed("Available apps")>>
            /\ pc' = "done"
            /\ UNCHANGED children
       ELSE LET app_name == Join(lower(args[1]))
            IN  IF app_name \notin DOMAIN app_paths
                THEN /\ trace' = <<Printed("Unknown app"), Printed("Available apps")>>
                     /\ pc' = "done"
                     /\ UNCHANGED children
                ELSE LET app_path == app_paths[app_name]
                         cmd == <<Printed("Starting"), Ran(app_path)>>
                     IN  \/ /\ trace' = cmd
                            /\ children' = children \cup {app_path}
                            /\ pc' = "running"
                         \/ /\ trace' = cmd \o <<Printed("Error running")>>
                            /\ pc' = "done"
                            /\ UNCHANGED children
    /\ UNCHANGED <<fn, args, result, tables, seen, repeat>>

\* The app ends: subprocess.run returns and so does main.
RunSingleAppExits ==
    /\ pc = "running" /\ fn = "run_single_app"
    /\ children' = {}
    /\ pc' = "done"
    /\ UNCHANGED <<fn, args, result, tables, seen, repeat, trace>>

\* Ctrl+C while the app runs: the app is killed, the KeyboardInterrupt is
\* caught and main returns.
RunSingleAppInterrupted ==
    /\ pc = "running" /\ fn = "run_single_app"
    /\ children' = {}
    /\ trace' = trace \o <<Printed("app stopped.")>>
    /\ pc' = "done"
    /\ UNCHANGED <<fn, args, result, tables, seen, repeat>>

NextLaunchers ==
    \/ RunAppsStart
    \/ RunAppsChoice
    \/ RunAppsAppExits
    \/ RunAppsAppInterrupted
    \/ RunAppsPromptInterrupted
    \/ RunSingleApp
    \/ RunSingleAppExits
    \/ RunSingleAppInterrupted

SpecLaunchers == InitLaunchers /\ [][NextLaunchers]_vars

(***************************************************************************)
(* Properties                                                              *)
(***************************************************************************)

\* One per cent, the relative tolerance of the "within tolerance" claims.
Tolerance == <<1000, -5>>

\* x equals y within the relative tolerance.
Close(x, y) == FLe(FAbs(FSub(x, y)), FMul(Tolerance, FAbs(y)))

\* x is negligible beside y: |x| is within the relative tolerance of |y|.
Negligible(x, y) == FLe(FAbs(x), FMul(Tolerance, FAbs(y)))

\* |x - y| <= d
Within(x, y, d) == FLe(FAbs(FSub(x, y)), d)

Returned(f) == pc = "done" /\ fn = f

\* The Compton shift written out: compton_wavelength * (1 - cos(theta)).
ComptonShift(scattering_angle) ==
    FMul(FMul(FDiv(PLANCK_CONSTANT, FMul(ELECTRON_REST_MASS, SPEED_OF_LIGHT)),
              METERS_TO_ANGSTROM),
         FSub(One, Cos(scattering_angle)))

\* The rounding of the scattered wavelength lambda_i + shift: one unit in
\* its last place.  The shift is read back from the rounded sum, so it is
\* known no more precisely than this.
ShiftRounding(incident_energy, shift) ==
    Ulp(FAdd(FMul(energy_to_wavelength(incident_energy), METERS_TO_ANGSTROM), shift))

\* C1: for every energy E > 0 (keV), wavelength_to_energy applied to
\* energy_to_wavelength(E) returns E within tolerance.
C1_RoundTrip ==
    Returned("wavelength_to_energy") =>
        \A E \in Energies :
            args[1] = energy_to_wavelength(E) => Close(result, E)

\* C2: at scattering_angle = 0, for every incident_energy > 0, the
\* scattered_energy returned by compton_scattering equals incident_energy
\* within tolerance, so that energy_lost is 0.
C2_ForwardScatteringKeepsEnergy ==
    (Returned("compton_scattering") /\ args[2] = 0) =>
        /\ Close(result.scattered_energy, args[1])
        /\ Negligible(result.energy_lost, args[1])

\* C3: at scattering_angle = 0, for every incident_energy > 0, the
\* wavelength_change returned by compton_scattering is 0.
C3_ForwardScatteringNoShift ==
    (Returned("compton_scattering") /\ args[2] = 0) =>
        result.wavelength_change = Zero

C3_Witness ==
    /\ Returned("compton_scattering")
    /\ args = << <<5000, -1>>, 0 >>
    /\ result.wavelength_change = Zero
    /\ result.compton_wavelength # Zero

\* C4: for every incident_energy > 0 and every angle, the wavelength_change
\* returned by compton_scattering is compton_wavelength * (1 - cos(theta)),
\* up to the rounding of the scattered wavelength it is read back from; the
\* shift the Compton app recomputes for its formula display is that product,
\* and so the same quantity as the wavelength_change it shows.
C4_ComptonShiftEquation ==
    /\ Returned("compton_scattering") =>
          /\ Within(result.wavelength_change, ComptonShift(args[2]),
                    ShiftRounding(args[1], ComptonShift(args[2])))
          /\ Within(result.wavelength_change,
                    FMul(result.compton_wavelength, FSub(One, Cos(args[2]))),
                    ShiftRounding(args[1], ComptonShift(args[2])))
    /\ Returned("compton_app") =>
          /\ result.delta_lambda = ComptonShift(args[2])
          /\ Within(result.result.wavelength_change, result.delta_lambda,
                    ShiftRounding(FMul(args[1], Thousand), result.delta_lambda))

C4_Witness ==
    /\ Returned("compton_app")
    /\ args = << <<1000, -3>>, 90 >>
    /\ result.delta_lambda = <<2426, -5>>
    /\ result.result.wavelength_change = <<2426, -5>>

\* C5: for any fixed incident_energy > 0, the wavelength_change returned by
\* compton_scattering is non-decreasing as scattering_angle increases from 0
\* to 180 degrees: no larger angle in that range gives a smaller change.
C5_ShiftMonotoneInAngle ==
    Returned("compton_scattering") =>
        \A a \in Angles :
            (args[2] <= a /\ a <= 180) =>
                FLe(result.wavelength_change,
                    compton_scattering(args[1], a).wavelength_change)

C5_Witness ==
    /\ Returned("compton_scattering")
    /\ args = << <<5000, -1>>, 90 >>
    /\ FLt(compton_scattering(args[1], 0).wavelength_change, result.wavelength_change)
    /\ FLt(result.wavelength_change, compton_scattering(args[1], 180).wavelength_change)

\* C6: at scattering_angle = 180 the wavelength_change returned by
\* compton_scattering is twice the compton_wavelength, for every incident
\* energy, up to the rounding of the scattered wavelength, and that is the
\* value of compton_wavelength_max(incident_energy); compton_wavelength is
\* 0.0243 Angstrom and its double 0.0486 Angstrom to within 0.0001 Angstrom.
\* Over the app's energies (0.1 to 10 MeV) the wavelength_change at 180
\* degrees is within tolerance of the maximum the app shows.
C6_BackScatteringShift ==
    /\ (Returned("compton_scattering") /\ args[2] = 180) =>
          /\ compton_wavelength_max(args[1]) = FMul(Two, result.compton_wavelength)
          /\ Within(result.wavelength_change, compton_wavelength_max(args[1]),
                    ShiftRounding(args[1], compton_wavelength_max(args[1])))
          /\ Within(result.compton_wavelength, <<2430, -5>>, <<1000, -7>>)
          /\ Within(compton_wavelength_max(args[1]), <<4860, -5>>, <<1000, -7>>)
    /\ (Returned("compton_app") /\ args[2] = 180) =>
          /\ Close(result.result.wavelength_change, result.max_change)
          /\ Within(result.result.wavelength_change, <<4860, -5>>, <<1000, -7>>)
    /\ Returned("compton_wavelength_max") =>
          Within(result, <<4860, -5>>, <<1000, -7>>)

C6_Witness ==
    /\ Returned("compton_scattering")
    /\ args = << <<5000, -1>>, 180 >>
    /\ result.wavelength_change = <<4852, -5>>
    /\ result.wavelength_change = compton_wavelength_max(args[1])

\* C7: the compton_wavelength returned by compton_scattering is the same
\* constant, h / (m_e c) in Angstrom (0.02426), in every call: it depends
\* neither on incident_energy nor on scattering_angle.
C7_ComptonWavelengthConstant ==
    /\ Returned("compton_scattering") => result.compton_wavelength = <<2426, -5>>
    /\ Returned("compton_app") => result.result.compton_wavelength = <<2426, -5>>

C7_Witness ==
    /\ Returned("compton_scattering")
    /\ args = << <<1240, 1>>, 135 >>
    /\ result.compton_wavelength = <<2426, -5>>
    /\ result.wavelength_change # Zero

\* C8: compton_scattering computes recoil_electron_energy as
\* energy_lost * (1 - cos(theta)) / (1 + energy_lost / electron rest energy),
\* the rest energy being in keV (510.999), like energy_lost.
C8_RecoilEnergyFormula ==
    Returned("compton_scattering") =>
        Close(result.recoil_electron_energy,
              FDiv(FMul(result.energy_lost, FSub(One, Cos(args[2]))),
                   FAdd(One, FDiv(result.energy_lost, ELECTRON_REST_ENERGY))))

\* C9: for all incident_energy < work_function, photoelectric_effect returns
\* can_eject = False, kinetic_energy = 0 and max_electron_energy = 0.
C9_BelowThreshold ==
    (Returned("photoelectric_effect") /\ FLt(args[1], args[2])) =>
        /\ result.can_eject = FALSE
        /\ result.kinetic_energy = Zero
        /\ result.max_electron_energy = Zero

C9_Witness ==
    /\ Returned("photoelectric_effect")
    /\ args = << <<4200, -3>>, <<4300, -3>> >>
    /\ result.can_eject = FALSE
    /\ result.kinetic_energy = Zero

\* C10: for all incident_energy >= work_function, equality included,
\* photoelectric_effect returns can_eject = True and kinetic_energy equal to
\* incident_energy - work_function; at incident_energy = work_function
\* ejection is reported possible with kinetic_energy 0.
C10_AtOrAboveThreshold ==
    (Returned("photoelectric_effect") /\ ~FLt(args[1], args[2])) =>
        /\ result.can_eject = TRUE
        /\ result.kinetic_energy = FSub(args[1], args[2])
        /\ args[1] = args[2] => result.kinetic_energy = Zero

C10_Witness ==
    /\ Returned("photoelectric_effect")
    /\ args = << <<4300, -3>>, <<4300, -3>> >>
    /\ result.can_eject = TRUE
    /\ result.kinetic_energy = Zero

\* C11: threshold_frequency (the work function in joules over h) and
\* threshold_wavelength are computed on both branches of photoelectric_effect
\* and depend only on work_function: a call with the same work_function and
\* any other incident_energy, on either side of the threshold, returns the
\* same two values.
C11_ThresholdDependsOnMaterialOnly ==
    Returned("photoelectric_effect") =>
        /\ Close(result.threshold_frequency,
                 FDiv(FMul(args[2], EV_TO_JOULES), PLANCK_CONSTANT))
        /\ \A E \in IncidentEnergiesEv :
              LET other == photoelectric_effect(E, args[2])
              IN  /\ other.threshold_frequency = result.threshold_frequency
                  /\ other.threshold_wavelength = result.threshold_wavelength

C11_Witness ==
    /\ Returned("photoelectric_effect")
    /\ args = << <<4200, -3>>, <<4300, -3>> >>
    /\ result.can_eject = FALSE
    /\ photoelectric_effect(<<6000, -3>>, args[2]).can_eject = TRUE
    /\ photoelectric_effect(<<6000, -3>>, args[2]).threshold_frequency
          = result.threshold_frequency
    /\ result.threshold_frequency = <<1040, 12>>

\* C12: with threshold_energy = 2 * ELECTRON_REST_ENERGY, pair_production
\* returns can_occur exactly when incident_energy >= threshold_energy, for
\* every incident_energy; when can_occur holds, excess_energy is
\* incident_energy - threshold_energy and kinetic_energy_each is half of it,
\* so that at the threshold itself can_occur holds with excess 0.
C12_PairProductionInvariant ==
    Returned("pair_production") =>
        LET threshold == FxAdd(ELECTRON_REST_ENERGY_exact, ELECTRON_REST_ENERGY_exact)
        IN  /\ result.threshold_energy = threshold
            /\ result.can_occur = ~FxLt(args[1], threshold)
            /\ result.can_occur =>
                  /\ FxAdd(result.excess_energy, threshold) = args[1]
                  /\ FxAdd(result.kinetic_energy_each, result.kinetic_energy_each)
                        = result.excess_energy
            /\ args[1] = threshold =>
                  result.can_occur /\ result.excess_energy = FxZero

C12_Witness ==
    /\ Returned("pair_production")
    /\ args[1] = <<1021, 9978920>>
    /\ result.can_occur
    /\ result.excess_energy = FxZero

\* C13: for every incident_energy below threshold_energy, pair_production
\* returns can_occur false, excess_energy 0, kinetic_energy_each 0 and
\* minimum_energy equal to threshold_energy; on the other branch
\* minimum_energy equals threshold_energy too.
C13_BelowPairThreshold ==
    Returned("pair_production") =>
        /\ result.minimum_energy = result.threshold_energy
        /\ result.minimum_energy
              = FxAdd(ELECTRON_REST_ENERGY_exact, ELECTRON_REST_ENERGY_exact)
        /\ FxLt(args[1], result.threshold_energy) =>
              /\ result.can_occur = FALSE
              /\ result.excess_energy = FxZero
              /\ result.kinetic_energy_each = FxZero

C13_Witness ==
    /\ Returned("pair_production")
    /\ args[1] = <<1021, 9978918>>
    /\ result.can_occur = FALSE
    /\ result.excess_energy = FxZero
    /\ result.minimum_energy = <<1021, 9978920>>

\* C14 as stated: for every incident_energy below 1021.998 keV
\* pair_production returns can_occur false, and at 1021.998 keV exactly it
\* returns an excess_energy of about 0 (under a thousandth of a keV).
C14_BelowRoundedThreshold ==
    Returned("pair_production") =>
        /\ FxLt(args[1], <<1021, 9980000>>) => result.can_occur = FALSE
        /\ args[1] = <<1021, 9980000>> =>
              FxLt(result.excess_energy, <<0, 10000>>)

\* C14, amended: the threshold is 2 * 510.998946 = 1021.997892 keV.  For
\* every incident_energy below 1021.997892 keV pair_production returns
\* can_occur false; from there up to 1021.998 keV it returns can_occur true,
\* and at 1021.998 keV exactly the excess_energy is 0.000108 keV, about 0.
C14_BelowExactThreshold ==
    Returned("pair_production") =>
        /\ FxLt(args[1], <<1021, 9978920>>) => result.can_occur = FALSE
        /\ ~FxLt(args[1], <<1021, 9978920>>) /\ ~FxLt(<<1021, 9980000>>, args[1]) =>
              result.can_occur = TRUE
        /\ args[1] = <<1021, 9980000>> =>
              /\ result.excess_energy = <<0, 1080>>
              /\ FxLt(result.excess_energy, <<0, 10000>>)

C14_Witness ==
    /\ Returned("pair_production")
    /\ args[1] = <<1021, 9979000>>
    /\ FxLt(args[1], <<1021, 9980000>>)
    /\ result.can_occur = TRUE
    /\ result.excess_energy = <<0, 80>>

\* A call has ended by raising ZeroDivisionError.
Raised(f) == pc = "raised" /\ fn = f

\* C15: an energy below the threshold or work function is never signalled
\* by raising.  For every work_function > 0 and every incident_energy >= 0,
\* 0 included, photoelectric_effect returns a result that holds the
\* can_eject flag; for every incident_energy, 0 and negative values
\* included, pair_production returns a result that holds the can_occur
\* flag, false exactly below the threshold.  Neither call raises.
C15_BelowThresholdNeverRaises ==
    /\ (fn = "photoelectric_effect" /\ pc # "ready"
            /\ FLt(Zero, args[2]) /\ FLe(Zero, args[1])) =>
          /\ pc = "done"
          /\ result.can_eject \in BOOLEAN
          /\ FLt(args[1], args[2]) => result.can_eject = FALSE
    /\ (fn = "pair_production" /\ pc # "ready") =>
          /\ pc = "done"
          /\ result.can_occur \in BOOLEAN
          /\ FxLt(args[1], threshold_energy) => result.can_occur = FALSE

C15_Witness ==
    /\ Returned("photoelectric_effect")
    /\ args = << Zero, <<4300, -3>> >>
    /\ result.can_eject = FALSE
    /\ result.kinetic_energy = Zero

\* C16: a zero input is not guarded inside the converters.
\* energy_to_wavelength(0) and wavelength_to_energy(0) return no value: the
\* division by zero reaches the caller as ZeroDivisionError.  The callers
\* built on them pass it on unchanged: compton_scattering(0, angle) and
\* photoelectric_effect(E, 0) end with the same exception and return no
\* result.
C16_ZeroInputPropagates ==
    /\ (fn \in {"energy_to_wavelength", "wavelength_to_energy"}
            /\ pc # "ready" /\ IsZero(args[1])) =>
          Raised(fn) /\ result = ZeroDivisionError
    /\ (fn = "compton_scattering" /\ pc # "ready" /\ IsZero(args[1])) =>
          Raised(fn) /\ result = ZeroDivisionError
    /\ (fn = "photoelectric_effect" /\ pc # "ready" /\ IsZero(args[2])) =>
          Raised(fn) /\ result = ZeroDivisionError

C16_Witness ==
    /\ Raised("photoelectric_effect")
    /\ args = << <<4200, -3>>, Zero >>
    /\ result = ZeroDivisionError

\* x runs from first to last in n strictly increasing samples.
Spans(x, first, last, n) ==
    /\ Len(x) = n
    /\ x[1] = first
    /\ x[n] = last
    /\ \A i \in 1..(n - 1) : FLt(x[i], x[i + 1])

\* C17: a sweep over [a, b] with N sample points yields N aligned (x, y)
\* pairs, the first x equal to a and the last equal to b:
\* create_compton_scattering_plot 100 pairs over [0, max_angle],
\* create_pair_production_plot 200 pairs over [0.5, max_energy] and the
\* Compton app's angle explorer 37 pairs over [0, 180], every 5 degrees.
\* Every y sequence is as long as its x sequence and holds at each index the
\* value computed at the x of that index.
C17_SweepGenerators ==
    /\ Returned("create_compton_scattering_plot") =>
          /\ Spans(result.angles, Zero, args[2], 100)
          /\ Len(result.scattered_energies) = Len(result.angles)
          /\ Len(result.wavelength_changes) = Len(result.angles)
          /\ \A i \in 1..Len(result.angles) :
                result.wavelength_changes[i]
                   = compton_scattering_deg(FMul(args[1], Thousand),
                                            result.angles[i]).wavelength_change
    /\ Returned("create_pair_production_plot") =>
          /\ Spans(result.energies, <<5000, -4>>, args[1], 200)
          /\ Len(result.thresholds) = Len(result.energies)
          /\ Len(result.excess_energies) = Len(result.energies)
          /\ Len(result.kinetic_energies) = Len(result.energies)
          /\ \A i \in 1..Len(result.energies) :
                IsZero(result.excess_energies[i])
                   <=> ~FxLt(threshold_energy,
                             FloatToFx(FMul(result.energies[i], Thousand)))
    /\ Returned("angle_explorer") =>
          /\ Spans(result.angles_range, Zero, <<1800, -1>>, 37)
          /\ \A i \in 1..37 : result.angles_range[i] = Float(5 * (i - 1))
          /\ Len(result.energies_scattered) = Len(result.angles_range)
          /\ Len(result.energies_electron) = Len(result.angles_range)
          /\ Len(result.wavelength_changes) = Len(result.angles_range)
          /\ \A i \in 1..37 :
                result.wavelength_changes[i]
                   = compton_scattering(FMul(args[1], Thousand),
                                        5 * (i - 1)).wavelength_change

C17_Witness ==
    /\ Returned("create_pair_production_plot")
    /\ args[1] = <<1000, -2>>
    /\ Len(result.energies) = 200
    /\ result.energies[1] = <<5000, -4>>
    /\ result.energies[200] = <<1000, -2>>
    /\ IsZero(result.excess_energies[1])
    /\ ~IsZero(result.excess_energies[200])

\* C18: in any sequence of calls to the converters, the calculations and
\* the sweep generators, the outcome of a call is a function of its
\* arguments only: a call ends as the first call of the same function with
\* equal arguments ended, with an equal result, whichever calls ran before
\* or between them.
C18_ResultsDependOnArgumentsOnly ==
    pc \in {"done", "raised"} =>
        /\ seen[<<fn, args>>].pc = pc
        /\ seen[<<fn, args>>].result = result

C18_Witness ==
    /\ Returned("compton_scattering") /\ repeat
    /\ <<"pair_production", << <<2021, 9978920>> >> >> \in DOMAIN seen
    /\ seen[<<fn, args>>].result = result
    /\ result.wavelength_change = <<2426, -5>>

\* C19: the constant table and the WORK_FUNCTIONS material table are never
\* written after the import: every calculation, sweep generator and app
\* run, in any sequence, leaves every constant and every material entry as
\* the import set it.
C19_TablesNeverWritten ==
    /\ tables = physics_constants
    /\ \A m \in Materials :
          tables.WORK_FUNCTIONS[m] = physics_constants.WORK_FUNCTIONS[m]

C19_Witness ==
    /\ Returned("photoelectric_app")
    /\ result.work_function = <<4300, -3>>
    /\ <<"create_pair_production_plot", << <<5000, -3>> >> >> \in DOMAIN seen
    /\ <<"compton_app", << <<1000, -3>>, 90 >> >> \in DOMAIN seen
    /\ tables = physics_constants

\* An exact energy in MeV, in keV.
MeVToKeV(x) == FxTimes(10, FxTimes(10, FxTimes(10, x)))

\* C20: every calculation reads its physical constants from the constants
\* table instead of hardcoding literals: the pair production threshold used
\* by pair_production and by the cross-section curve is
\* 2 * ELECTRON_REST_ENERGY, the rest energy used by the cross-section curve
\* is ELECTRON_REST_ENERGY, and the triplet production threshold is
\* 4 * ELECTRON_REST_ENERGY.
C20_ConstantsReadFromTable ==
    /\ Returned("pair_production") =>
          result.threshold_energy = FxTimes(2, ELECTRON_REST_ENERGY_exact)
    /\ Returned("pair_app_cross_section") =>
          /\ MeVToKeV(result.threshold) = FxTimes(2, ELECTRON_REST_ENERGY_exact)
          /\ MeVToKeV(result.rest_energy) = ELECTRON_REST_ENERGY_exact
    /\ Returned("create_triplet_production_plot") =>
          MeVToKeV(result.threshold) = FxTimes(4, ELECTRON_REST_ENERGY_exact)

\* The field names the data model enumerates for each result.
PhotoelectricResult ==
    {"kinetic_energy", "threshold_frequency", "can_eject", "threshold_wavelength"}

ComptonResult ==
    {"scattered_energy", "wavelength_change", "recoil_electron_energy",
     "energy_lost", "compton_wavelength"}

PairResult ==
    {"threshold_energy", "excess_energy", "kinetic_energy_each", "can_occur",
     "minimum_energy"}

\* C21 as stated: each calculation returns a mapping whose field names are
\* exactly those the data model enumerates for its process, on both
\* branches.  photoelectric_effect also returns max_electron_energy.
C21_FieldsAsEnumerated ==
    /\ Returned("photoelectric_effect") => DOMAIN result = PhotoelectricResult
    /\ Returned("compton_scattering") => DOMAIN result = ComptonResult
    /\ Returned("pair_production") => DOMAIN result = PairResult

\* C21: each calculation returns a flat mapping with the same field names
\* on the below-threshold and the at-or-above-threshold branch: the
\* enumerated ones and, for the photoelectric effect, max_electron_energy
\* as well.
C21_FieldsOfResults ==
    /\ Returned("photoelectric_effect") =>
          DOMAIN result = PhotoelectricResult \cup {"max_electron_energy"}
    /\ Returned("compton_scattering") => DOMAIN result = ComptonResult
    /\ Returned("pair_production") => DOMAIN result = PairResult

C21_Witness ==
    /\ Returned("photoelectric_effect")
    /\ ~result.can_eject
    /\ result.max_electron_energy = Zero
    /\ DOMAIN result = PhotoelectricResult \cup {"max_electron_energy"}

\* C22: the Compton result conserves energy as the app states: at every
\* energy and angle the sliders supply, the incident energy equals the
\* scattered energy plus the recoil electron energy within 0.01 MeV, and
\* the app's conservation check takes the "satisfied" branch.
C22_EnergyConserved ==
    Returned("compton_app") =>
        /\ Within(args[1],
                  FAdd(FDiv(result.result.scattered_energy, Thousand),
                       FDiv(result.result.recoil_electron_energy, Thousand)),
                  <<1000, -5>>)
        /\ result.satisfied

\* All values of the curve xs lie in [0, 1] and its maximum is exactly 1.
Normalised(xs) ==
    /\ \A i \in DOMAIN xs : FLe(Zero, xs[i]) /\ FLe(xs[i], One)
    /\ \E i \in DOMAIN xs : xs[i] = One

AllZero(xs) == \A i \in DOMAIN xs : xs[i] = Zero

\* C23 as stated: the photodisintegration curve has a hard threshold
\* cutoff: for every max_energy, every sample with energy < 8 MeV has value
\* exactly 0; when max_energy >= 8 the curve is normalised (values in
\* [0, 1], maximum exactly 1); when max_energy < 8 all values are 0 and no
\* division by zero occurs.
C23_HardThresholdCutoff ==
    Returned("create_photodisintegration_plot") =>
        /\ \A i \in DOMAIN result.xs :
              /\ ~IsErr(result.xs[i])
              /\ FLt(result.energies[i], <<8000, -3>>) => result.xs[i] = Zero
        /\ FLe(<<8000, -3>>, args[1]) => Normalised(result.xs)
        /\ FLt(args[1], <<8000, -3>>) => AllZero(result.xs)

\* C23: for every max_energy, every sample with energy < 8 MeV has value
\* exactly 0; when 8 <= max_energy <= 124 000 MeV the curve is normalised
\* (values in [0, 1], maximum exactly 1); when max_energy < 8 all values
\* are 0 and no division by zero occurs.
C23_HardThresholdCutoffInRange ==
    Returned("create_photodisintegration_plot") =>
        /\ \A i \in DOMAIN result.xs :
              /\ ~IsErr(result.xs[i])
              /\ FLt(result.energies[i], <<8000, -3>>) => result.xs[i] = Zero
        /\ FLe(<<8000, -3>>, args[1]) /\ FLe(args[1], <<1240, 2>>)
              => Normalised(result.xs)
        /\ FLt(args[1], <<8000, -3>>) => AllZero(result.xs)

C23_Witness ==
    /\ Returned("create_photodisintegration_plot")
    /\ args[1] = <<3000, -2>>
    /\ Len(result.xs) = PhotodisintegrationPlotPoints
    /\ \E i \in DOMAIN result.xs :
          /\ FLt(result.energies[i], <<8000, -3>>)
          /\ result.xs[i] = Zero
          /\ FLe(<<8000, -3>>, result.energies[i + 1])
          /\ FLt(Zero, result.xs[i + 1])
    /\ Normalised(result.xs)

\* The width parameter is well defined and within its bounds, and the
\* intensity is 1 at angle 0.
RayleighWidthBounded ==
    /\ pc = "done"
    /\ FLe(<<5000, -3>>, result.theta0) /\ FLe(result.theta0, <<6000, -2>>)
    /\ result.angles[1] = Zero /\ result.intensity[1] = One

\* C24 as stated: for every energy_keV and atomic_number, 0 and negative
\* values included, create_rayleigh_scattering_plot computes theta0 without
\* division by zero and with 5 <= theta0 <= 60, and the normalised
\* intensity is 1 at angle 0 and in (0, 1] elsewhere.
C24_RayleighWidthAndIntensity ==
    fn = "create_rayleigh_scattering_plot" /\ pc # "ready" =>
        /\ RayleighWidthBounded
        /\ \A i \in DOMAIN result.intensity :
              FLt(Zero, result.intensity[i]) /\ FLe(result.intensity[i], One)

\* C24: for every energy_keV and atomic_number, 0 and negative values
\* included, create_rayleigh_scattering_plot computes theta0 without
\* division by zero and with 5 <= theta0 <= 60, and the normalised
\* intensity is 1 at angle 0 and in [0, 1] elsewhere: above 0 at every
\* angle up to 27 times theta0, and 0 where the exponential underflows.
C24_RayleighWidthAndIntensityUnderflow ==
    fn = "create_rayleigh_scattering_plot" /\ pc # "ready" =>
        /\ RayleighWidthBounded
        /\ \A i \in DOMAIN result.intensity :
              /\ FLe(Zero, result.intensity[i]) /\ FLe(result.intensity[i], One)
              /\ FLe(result.angles[i], FMul(<<2700, -2>>, result.theta0))
                    => FLt(Zero, result.intensity[i])

C24_Witness ==
    /\ Returned("create_rayleigh_scattering_plot")
    /\ args = << Zero, 0 >>
    /\ result.theta0 = <<6000, -2>>
    /\ Len(result.intensity) = RayleighPlotPoints
    /\ result.intensity[1] = One
    /\ FLt(Zero, result.intensity[RayleighPlotPoints])
    /\ FLt(result.intensity[RayleighPlotPoints], One)

\* C25: for every angle the Compton app's slider can produce (0 to 180 in
\* steps of 5), the index int(scattering_angle / 5) is within the
\* 37-element sweep and the sweep's x value at that index equals the
\* selected angle, so the markers' y values are the calculation's results
\* for the selected angle; the markers are drawn for every slider value.
C25_CurrentAngleMarker ==
    Returned("current_angle_markers") =>
        LET calc == compton_scattering(FMul(args[1], Thousand), args[2])
        IN  /\ result.drawn
            /\ result.current_idx \in 0..(ExplorerPoints - 1)
            /\ result.angle = Float(args[2])
            /\ result.y_vals[1] = FDiv(calc.scattered_energy, Thousand)
            /\ result.y_vals[2] = FDiv(calc.recoil_electron_energy, Thousand)
            /\ result.y_vals[3] = calc.wavelength_change

C25_Witness ==
    /\ Returned("current_angle_markers")
    /\ args[2] = 180
    /\ result.drawn
    /\ result.current_idx = 36
    /\ result.angle = <<1800, -1>>
    /\ result.y_vals[3] = <<4852, -5>>

\* C26: for every incident energy the pair production app's slider can
\* produce (0.5 to 10.0 MeV in steps of 0.1) and every nuclear charge Z in
\* 1..100, the three tests pair_production(E * 1000).can_occur,
\* E >= effective_threshold and E > 1.022 all give the same answer.
C26_ThresholdTestsAgree ==
    Returned("pair_app_threshold_tests") =>
        /\ result.result.can_occur = result.enhanced
        /\ result.enhanced = result.marker

C26_Witness ==
    /\ Returned("pair_app_threshold_tests")
    /\ args = << <<1100, -3>>, 100 >>
    /\ FxLt(<<1017, 3500000>>, result.effective_threshold)
    /\ FxLt(result.effective_threshold, <<1017, 3600000>>)
    /\ result.result.can_occur /\ result.enhanced /\ result.marker

\* x equals y up to the rounding of the operations that lead to them: within
\* two units in the last place.
SameToRounding(x, y) == Within(x, y, FMul(Two, Ulp(y)))

\* C27: the standalone threshold helpers agree with photoelectric_effect:
\* for every work_function > 0 and every incident_energy,
\* photoelectric_threshold_frequency(work_function) equals the result's
\* threshold_frequency and photoelectric_threshold_wavelength(work_function)
\* equals the result's threshold_wavelength, up to the rounding of the
\* multiplications and divisions, which the two take in different orders.
C27_ThresholdHelpersAgree ==
    /\ Returned("photoelectric_threshold_frequency") /\ ~IsZero(args[1]) =>
          \A E \in IncidentEnergiesEv :
              SameToRounding(result,
                  photoelectric_effect(E, args[1]).threshold_frequency)
    /\ Returned("photoelectric_threshold_wavelength") =>
          \A E \in IncidentEnergiesEv :
              SameToRounding(result,
                  photoelectric_effect(E, args[1]).threshold_wavelength)

C27_Witness ==
    /\ Returned("photoelectric_threshold_wavelength")
    /\ args[1] = <<4300, -3>>
    /\ SameToRounding(result, <<2883, -10>>)
    /\ photoelectric_effect(<<4200, -3>>, args[1]).can_eject = FALSE
    /\ SameToRounding(result,
           photoelectric_effect(<<4200, -3>>, args[1]).threshold_wavelength)

\* The place in trace of the last line read at the prompt.
LastInput == CHOOSE i \in DOMAIN trace :
                 /\ trace[i][1] = "input"
                 /\ \A j \in DOMAIN trace : trace[j][1] = "input" => j <= i

\* What run_apps did from the i-th entry of trace, a line read, up to the
\* next line read.
Round(i) ==
    LET later == {j \in DOMAIN trace : j > i /\ trace[j][1] = "input"}
        last  == IF later = {} THEN Len(trace)
                 ELSE (CHOOSE j \in later : \A k \in later : j <= k) - 1
    IN  SubSeq(trace, i + 1, last)

\* The lines that are "0" with whitespace around it, and those that are a
\* key of the menu with whitespace around it, with the file of the key.
ExitLines == {"0", " 0 ", "\t0"}

FileOfLine ==
    [ line \in {"1", "2", "3", "4", "5", "6", "7", "8", " 8\t"} |->
        CASE line = "1" -> "main.py"
          [] line = "2" -> "apps/photoelectric/photoelectric_app.py"
          [] line = "3" -> "apps/compton_scattering/compton_app.py"
          [] line = "4" -> "apps/pair_production/pair_app.py"
          [] line = "5" -> "apps/thomson_scattering/thomson_app.py"
          [] line = "6" -> "apps/rayleigh_scattering/rayleigh_app.py"
          [] line = "7" -> "apps/triplet_production/triplet_app.py"
          [] line \in {"8", " 8\t"} -> "apps/photodisintegration/photo_nuclear_app.py" ]

\* What each line read at the prompt led to: a line outside "0".."8" runs
\* nothing, prints the invalid-choice message and shows the menu again; a
\* line "1".."8" runs exactly the file of its key.
ChoicesHandled ==
    \A i \in DOMAIN trace :
        trace[i][1] = "input" =>
            LET line == trace[i][2]
                runs == {j \in DOMAIN Round(i) : Round(i)[j][1] = "subprocess.run"}
            IN  IF line \in ExitLines
                THEN Round(i) = <<Chose("0"), Printed("Goodbye!")>> /\ pc = "done"
                ELSE IF line \in DOMAIN FileOfLine
                THEN /\ Cardinality(runs) = 1
                     /\ \A j \in runs : Round(i)[j] = Ran(FileOfLine[line])
                ELSE /\ runs = {}
                     /\ Len(Round(i)) >= 3
                     /\ Round(i)[2] = Printed("Invalid choice. Please select 0-8.")
                     /\ Round(i)[3] = Menu
                     /\ Len(Round(i)) > 3 =>
                           Round(i)[4][1] = "raise" /\ pc = "raised"

\* C28 as stated: the launcher leaves its loop only when the entered
\* choice, after stripping whitespace, is "0"; a choice outside "0".."8"
\* launches no process, prints the invalid-choice message and shows the
\* menu again; a choice "1".."8" launches exactly the one app file mapped
\* to that key.
C28_MenuLoop ==
    fn = "run_apps" =>
        /\ pc \in {"done", "raised"} =>
              /\ \E i \in DOMAIN trace : trace[i][1] = "input"
              /\ trace[LastInput][2] \in ExitLines
        /\ ChoicesHandled

\* C28: the launcher leaves its loop by itself only when the entered
\* choice, after stripping whitespace, is "0" (Ctrl+C or the end of the
\* input at the prompt end it with an uncaught exception); a choice outside
\* "0".."8" launches no process, prints the invalid-choice message and
\* shows the menu again; a choice "1".."8" launches exactly the one app
\* file mapped to that key.
C28_MenuLoopUnlessInterrupted ==
    fn = "run_apps" =>
        /\ pc = "done" =>
              /\ \E i \in DOMAIN trace : trace[i][1] = "input"
              /\ trace[LastInput][2] \in ExitLines
        /\ pc = "raised" =>
              /\ trace[Len(trace)][1] = "raise"
              /\ trace[Len(trace) - 1] = Menu
        /\ ChoicesHandled

C28_Witness ==
    /\ fn = "run_apps" /\ pc = "done"
    /\ \E i \in DOMAIN trace :
          /\ trace[i] = Read("x")
          /\ Round(i) = <<Chose("x"), Printed("Invalid choice. Please select 0-8."),
                          Menu>>
          /\ trace[i + 4] = Read(" 0 ")
          /\ Round(i + 4) = <<Chose("0"), Printed("Goodbye!")>>

\* What follows the launch at the i-th entry of trace, when the launch has
\* ended: nothing but the menu when the app ended by itself, and the
\* message and then the menu when it was interrupted or failed to start.
BackAtMenu(i) ==
    \/ trace[i + 1] = Menu
    \/ /\ i + 2 <= Len(trace)
       /\ trace[i + 1] \in {Printed("stopped."), Printed("Error running")}
       /\ trace[i + 2] = Menu

\* C29: run_apps returns to the menu after every launched app: whether the
\* app subprocess ends normally, is interrupted with Ctrl+C while running,
\* or fails to start with an exception, the launcher does not exit but
\* prompts for the next choice; the launch blocks until the subprocess
\* ends, so at most one app launched from run_apps runs at a time.
C29_BackToMenuAfterEveryApp ==
    fn = "run_apps" =>
        /\ Cardinality(children) <= 1
        /\ (children # {}) = (pc = "running")
        /\ \A i \in DOMAIN trace :
              trace[i][1] = "subprocess.run" =>
                  IF i = Len(trace)
                  THEN pc = "running" /\ children = {trace[i][2]}
                  ELSE /\ BackAtMenu(i)
                       /\ trace[Len(trace)] = Menu => pc = "input"

C29_Witness ==
    /\ fn = "run_apps" /\ pc = "input" /\ children = {}
    /\ \E i, j \in DOMAIN trace :
          /\ i < j /\ j + 2 = Len(trace)
          /\ trace[i] = Ran("apps/compton_scattering/compton_app.py")
          /\ trace[i + 1] = Menu
          /\ trace[j] = Ran("apps/pair_production/pair_app.py")
          /\ trace[j + 1] = Printed("stopped.")
          /\ trace[j + 2] = Menu

\* The eight application names, and the menu entry of run_apps that stands
\* for the same application.
KnownAppNames ==
    {"photoelectric", "compton", "pair", "thomson", "rayleigh", "triplet",
     "photodisintegration", "main"}

MenuEntry(app_name) ==
    CASE app_name = "main"                -> "1"
      [] app_name = "photoelectric"       -> "2"
      [] app_name = "compton"             -> "3"
      [] app_name = "pair"                -> "4"
      [] app_name = "thomson"             -> "5"
      [] app_name = "rayleigh"            -> "6"
      [] app_name = "triplet"             -> "7"
      [] app_name = "photodisintegration" -> "8"

\* The files of the subprocesses launched so far, in order.
Launched == SelectSeq(trace, LAMBDA event : event[1] = "subprocess.run")

\* C30: run_single_app launches exactly one subprocess if and only if
\* exactly one argument is given and, lower-cased, it is one of the eight
\* known app names; with a wrong argument count or an unknown name it prints
\* the help text and launches nothing; the file launched for a name is the
\* file run_apps launches for the corresponding menu entry.
C30_SingleAppLaunch ==
    (fn = "run_single_app" /\ pc # "ready") =>
        LET known == /\ Len(args) = 1
                     /\ Join(lower(args[1])) \in KnownAppNames
        IN  /\ (Len(Launched) = 1) = known
            /\ ~known =>
                  /\ Launched = <<>>
                  /\ children = {}
                  /\ \E i \in DOMAIN trace : trace[i] = Printed("Available apps")
            /\ known =>
                  Launched = <<Ran(apps[MenuEntry(Join(lower(args[1])))].file)>>

C30_Witness ==
    /\ fn = "run_single_app" /\ pc = "running"
    /\ args = << <<"P", "A", "I", "R">> >>
    /\ Launched = <<Ran(apps["4"].file)>>
    /\ children = {apps["4"].file}

====
